---- MODULE Spec2Model ----
(***************************************************************************)
(* A model of the HFT trading engine: the tick-to-order pipeline           *)
(* (feed -> Q1 -> strategy core -> Q2 -> execution dispatcher), the shared *)
(* EngineState record, the kill switch and risk gate, the control plane    *)
(* and the SIGINT shutdown handler.                                        *)
(*                                                                         *)
(* Units.  A quantity is an integer number of units and a price is an      *)
(* integer.  In the specifications of the engine the unit is the lot of    *)
(* 0.01, the fixed order size of every strategy, and at most four fills    *)
(* are accounted; in the accounting specification update_from_trade is     *)
(* handed whole quantities (the unit is 1.0), as in the worked example of  *)
(* the specification.  Every f64 that results from a division (average     *)
(* entry price, P&L) is an exact rational <<n, d>> in lowest terms with    *)
(* d > 0: on the inputs enumerated here the f64 operations of              *)
(* update_from_trade round by less than 1e-9 and its tests (new_pos ==     *)
(* 0.0, realized_pnl != 0.0, the signs) give what exact arithmetic gives.  *)
(* Beyond these inputs they need not: three fills of 0.01 followed by      *)
(* three of -0.01 leave a position of -3.5e-18 in f64, which the code      *)
(* takes for a short position.                                             *)
(***************************************************************************)
EXTENDS Integers, Sequences, FiniteSets, TLC

\* ------------------------------------------------------------------ bounds
\* Number of fills applied in the accounting specification.
MaxFills == 4
\* Capacity of Q1 and of Q2 in the model (4096 in main.rs).
QCap == 1
\* Number of ticks the feed delivers.
MaxEvents == 1
\* Number of requests the control plane receives.
MaxCmds == 1
\* Number of SIGINT deliveries.
NumSignals == 1
\* Number of times the clock advances, and the seconds it advances by.
MaxClock == 2
TickSeconds == 10
\* Number of calls made on the client in the client specification.
MaxCalls == 3
\* Number of trades accounted while a reader of the state is at work, and
\* number of instructions handed to the dispatcher in the dispatch
\* specification.
MaxTrades == 2
\* Messages sent through the ring buffer of the stress test, and its capacity
\* (TOTAL_MESSAGES = 10,000,000 and QUEUE_CAPACITY = 4096 in the tool).
StressMessages == 40
StressCapacity == 3
\* Entries appended to each ring beyond the capacity of the larger one.
MaxOverflow == 3

\* Triggering events handed to the ping-pong strategy in the throttle
\* specification, the number of times its clock advances and the seconds it
\* advances by.
MaxTriggers == 5
MaxPpSteps == 9
PpStepSeconds == 5

\* ------------------------------------------------------- program constants
\* feed_handler/lib.rs 12, 22, 23: the capacity of the channel to the feed
\* task, the first backoff and the largest, in ms.
WS_CHANNEL_CAP == 10000
WS_BACKOFF_MS == 100
WS_MAX_BACKOFF_MS == 5000
\* db.rs 76, 86: the writer commits once its buffer holds this many records.
DB_BATCH == 100
\* state.rs: capacity of pnl_history.
PNL_HISTORY_CAP == 5000
\* state.rs: capacity of recent_logs.
RECENT_LOGS_CAP == 200
\* client.rs: burst size of the token bucket.
RATE_BURST == 10
\* client.rs: attempts cancel_all_orders makes, and its first backoff in ms.
CANCEL_MAX_RETRIES == 3
CANCEL_BACKOFF_MS == 100
\* ping_pong.rs: price above which ping-pong triggers.
PP_TRIGGER_PRICE == 50000
\* ping_pong.rs: throttle between two instructions, seconds.
PP_THROTTLE_S == 10
\* ping_pong.rs: how far in the past the first last_trade_time lies, seconds.
PP_BACKDATE_S == 20
\* momentum.rs: cooldown between two signals, seconds.
MOM_COOLDOWN_S == 1

\* liquidation.rs 17, 60, 69: the window of the liquidation strategy, its
\* cooldown in seconds and the length of its volume burst.
LIQ_WINDOW == 50
LIQ_COOLDOWN_S == 1
LIQ_BURST == 5
\* db.rs 72: the capacity of the channel to the writer task.
DB_CHANNEL_CAP == 10000

\* config.rs 31-34: RiskConfig, the [risk] table of config.toml; max_position
\* is in lots.  trading.dry_run and trading.enabled are chosen freely.
Config == [ max_position |-> 2, max_drawdown |-> 1001 ]

\* strategy/lib.rs 46-60: the parameters strategy::run is called with and
\* hands on to create_strategy.
RunArgs ==
    [ fee_maker |-> 0, fee_taker |-> 0, strategy_window |-> 2,
      strategy_threshold |-> 0, price_threshold |-> 0, volume_multiplier |-> 1 ]

VARIABLES
    \* --- EngineState (state.rs)
    is_running,         \* Arc<AtomicBool>
    shutting_down,      \* AtomicBool
    trade_count,        \* AtomicUsize
    current_pnl,        \* Mutex<f64>, rational
    max_loss_limit,     \* Mutex<f64>
    target_profit,      \* Mutex<f64>
    last_order_rtt_ns,  \* AtomicU64, in clock units
    current_position,   \* Mutex<f64>, in lots
    avg_entry_price,    \* Mutex<f64>, rational
    pnl_history,        \* Mutex<VecDeque<(u64, f64)>>
    recent_logs,        \* Mutex<VecDeque<String>>
    active_strategy,    \* Arc<Mutex<String>>
    name_lock,          \* who holds the active_strategy mutex
    \* --- risk_engine
    trading_enabled,    \* TRADING_ENABLED, the kill switch
    \* --- main.rs: configuration, startup, queues, shutdown signals
    cfg_dry_run,        \* config.trading.dry_run
    main_pc,            \* position of main()
    handler_set,        \* the Ctrl-C handler is installed
    q1,                 \* ring buffer of MarketEvent
    q2,                 \* ring buffer of TradeInstruction
    shutdown,           \* AtomicBool read by the strategy thread
    cleanup_done,       \* latch of the Ctrl-C handler
    exec_rx,            \* a broadcast message waits for the execution task
    feed_sub,           \* the feed task has subscribed to the broadcast
    feed_rx,            \* a broadcast message waits for the feed task
    exited,             \* std::process::exit was called
    sig_pc,             \* position of each Ctrl-C handler invocation
    \* --- feed task
    feed_pc,
    feed_n,             \* ticks received so far
    \* --- strategy thread (strategy::run)
    st_pc,
    st_name,            \* current_strategy_name
    st_obj,             \* the strategy object
    st_out,             \* the instruction process_event returned, if any
    \* --- execution task
    ex_pc,
    ex_instr,           \* the instruction being handled, if any
    ex_start,           \* Instant taken before place_order
    ex_read,            \* pnl, max_loss, target_profit as auto-stop read them
    \* --- ExecutionClient (client.rs) and the venue
    tokens,             \* tokens left in the rate limiter
    http_count,         \* HTTP requests issued
    cl_pc,              \* position of the call in progress
    cl_op,              \* the call in progress or last made
    cl_instr,           \* its instruction, if it is place_order
    cl_result,          \* what the last call returned
    cl_calls,           \* place_order calls made
    cancel_calls,       \* cancel_all_orders calls made
    \* --- TradeStorage (db.rs)
    db_chan,            \* records insert_trade has put on the channel
    \* --- control plane (server.rs)
    ctl_pc,
    ctl_cmd,            \* the request being handled
    ctl_resp,           \* status code of the last response
    ctl_n,              \* requests received so far
    \* --- observers of the accounting specification
    fills_n,            \* number of update_from_trade calls made so far
    last_realized,      \* value returned by the last update_from_trade
    last_fee,           \* fee given to the last update_from_trade
    ref,                \* state of the reference rule of section 4.5
    sum_qty,            \* running sum of the signed quantities
    scen,               \* how far the fills follow the worked example
    \* --- SSE stream (server.rs) and the observer of its reads
    sse,                \* position of one round of the stream, and what it read
    snapshots,          \* (pnl, position, entry) after each completed update
    \* --- stress_test (tools/stress_test/src/main.rs)
    sp_q,               \* the ring buffer; the k-th event pushed is written k
    sp_sent,            \* iterations of the producer's for loop completed
    sp_recv,            \* events the consumer has popped, in order
    sp_spun,            \* which of Full and Empty the threads have met
    \* --- the dropped-ticks counter of section 4.2
    dropped_ticks,      \* EngineState has no such field: nothing writes it
    \* --- observer of the ring specification
    appended,           \* calls made in the ring specification
    \* --- cancel_all_orders (client.rs)
    cl_attempt,         \* the loop variable attempt
    cl_waits,           \* the backoff sleeps of the call so far, in ms
    \* --- main.rs: configuration and startup before the position sync
    cfg_enabled,        \* config.trading.enabled
    cfg_keys,           \* api_key and secret_key are both present
    srv_pc,             \* the web server task: "off", "spawned", "listening"
    exit_code,          \* the code std::process::exit was called with, or -1
    \* --- db.rs: the writer task of TradeStorage; the records still in the
    \* --- channel are InChannel
    db_pc,              \* the writer: "recv", "flush" (in flush_buffer), "clear"
    db_buf,             \* records in the writer's buffer
    db_rows,            \* records committed to the trades table
    db_lost,            \* records cleared from the buffer after a failed flush
    db_last_flush,      \* last_flush
    db_at_mark,         \* observer: db_chan when shutting_down was set, or -1
    \* --- feed_handler/lib.rs: the reconnect loop spawned by connect
    ws_pc,              \* "off", "connect", "read", "sleep"
    ws_backoff,         \* backoff, in ms
    ws_chan,            \* events in the channel to the feed task
    ws_fails,           \* observer: failed attempts since the last connection
    ws_delay,           \* observer: the last sleep, in ms (0: none yet)
    ws_linked,          \* observer: a connection was made since the loop began
    ws_parsed,          \* observer: trades parse_trade has returned Ok for
    last_tick_timestamp, \* AtomicU64 of EngineState; a tick's timestamp is its number
    \* --- state.rs: the speed meter
    ticks_counter,      \* ticks received since the last sample
    current_tps,        \* ticks counted by the last sample
    \* --- observer: active_strategy took another value after the strategy
    \* --- object in use was built
    name_changed,
    \* --- observers of Q2 and of the calls: instructions the strategy thread
    \* --- has put on Q2, instructions the dispatcher has popped, and the ticks
    \* --- of the instructions place_order was called for, in order
    q2_pushed,
    q2_popped,
    submitted,
    \* --- observers: the number of ticks received when STOP last stored false
    \* --- to is_running (-1: no STOP yet), and whether START has stored true
    \* --- since
    stop_mark,
    restarted,
    \* --- observer: the steps the strategy thread has taken with the shutdown
    \* --- flag set: loop tests, loop bodies and pushes
    st_after,
    \* --- observer: for each triggering event handed to the ping-pong strategy,
    \* --- the clock reading and the side of the instruction returned, or "None"
    pp_trig,
    \* --- the EngineState mutexes (state.rs 22-42): who holds each one, and
    \* --- for each thread the function it is in and the lock operations it
    \* --- still has to perform there
    mutex_owner,
    lock_at,
    \* --- observer: the prices of the events pushed onto Q1 by the test driver
    fed,
    \* --- environment
    clock               \* monotonic clock (common::now_nanos), in seconds

pnlVars == <<current_position, avg_entry_price, current_pnl, pnl_history>>
pnlObs == <<fills_n, last_realized, last_fee, ref, sum_qty, scen>>
rdVars == <<sse, snapshots>>
spscVars == <<sp_q, sp_sent, sp_recv, sp_spun>>
cancelVars == <<cl_attempt, cl_waits>>
injVars == <<fed>>
ordVars == <<q2_pushed, q2_popped, submitted>>
lockVars == <<mutex_owner, lock_at>>
restartVars == <<stop_mark, restarted>>
hbVars == <<ws_parsed, last_tick_timestamp>>
tmVars == <<ticks_counter, current_tps>>
wsVars == <<ws_pc, ws_backoff, ws_chan, ws_fails, ws_delay, ws_linked>>
dbVars == <<db_pc, db_buf, db_rows, db_lost, db_last_flush, db_at_mark>>
bootVars == <<cfg_enabled, cfg_keys, srv_pc, exit_code>>
auxVars == <<rdVars, spscVars, dropped_ticks, appended, cancelVars, bootVars, injVars, dbVars, wsVars, tmVars, name_changed, hbVars, pp_trig, st_after, restartVars, ordVars, lockVars>>
auxExceptRd == <<spscVars, dropped_ticks, appended, cancelVars, bootVars, injVars, dbVars, wsVars, tmVars, name_changed, hbVars, pp_trig, st_after, restartVars, ordVars, lockVars>>
auxExceptSpsc == <<rdVars, dropped_ticks, appended, cancelVars, bootVars, injVars, dbVars, wsVars, tmVars, name_changed, hbVars, pp_trig, st_after, restartVars, ordVars, lockVars>>
auxExceptRing == <<rdVars, spscVars, dropped_ticks, cancelVars, bootVars, injVars, dbVars, wsVars, tmVars, name_changed, hbVars, pp_trig, st_after, restartVars, ordVars, lockVars>>
auxExceptCancel == <<rdVars, spscVars, dropped_ticks, appended, bootVars, injVars, dbVars, wsVars, tmVars, name_changed, hbVars, pp_trig, st_after, restartVars, ordVars, lockVars>>
auxExceptInj == <<rdVars, spscVars, dropped_ticks, appended, cancelVars, bootVars, dbVars, wsVars, tmVars, name_changed, hbVars, pp_trig, st_after, restartVars, ordVars, lockVars>>
auxExceptDb == <<rdVars, spscVars, dropped_ticks, appended, cancelVars, bootVars, injVars, wsVars, tmVars, name_changed, hbVars, pp_trig, st_after, restartVars, ordVars, lockVars>>
auxExceptWs == <<rdVars, spscVars, dropped_ticks, appended, cancelVars, bootVars, injVars, dbVars, tmVars, name_changed, hbVars, pp_trig, st_after, restartVars, ordVars, lockVars>>
auxExceptTm == <<rdVars, spscVars, dropped_ticks, appended, cancelVars, bootVars, injVars, dbVars, wsVars, name_changed, hbVars, pp_trig, st_after, restartVars, ordVars, lockVars>>
auxExceptName == <<rdVars, spscVars, dropped_ticks, appended, cancelVars, bootVars, injVars, dbVars, wsVars, tmVars, hbVars, pp_trig, st_after, restartVars, ordVars, lockVars>>
auxExceptBoot == <<rdVars, spscVars, dropped_ticks, appended, cancelVars, injVars, dbVars, wsVars, tmVars, name_changed, hbVars, pp_trig, st_after, restartVars, ordVars, lockVars>>
auxExceptTicks == <<rdVars, spscVars, dropped_ticks, appended, cancelVars, bootVars, injVars, dbVars, name_changed, pp_trig, st_after, restartVars, ordVars, lockVars>>
auxExceptPp == <<rdVars, spscVars, dropped_ticks, appended, cancelVars, bootVars, injVars, dbVars, wsVars, tmVars, name_changed, hbVars, st_after, restartVars, ordVars, lockVars>>
auxExceptAfter == <<rdVars, spscVars, dropped_ticks, appended, cancelVars, bootVars, injVars, dbVars, wsVars, tmVars, name_changed, hbVars, pp_trig, restartVars, ordVars, lockVars>>
auxExceptRestart == <<rdVars, spscVars, dropped_ticks, appended, cancelVars, bootVars, injVars, dbVars, wsVars, tmVars, name_changed, hbVars, pp_trig, st_after, ordVars, lockVars>>
auxExceptLock == <<rdVars, spscVars, dropped_ticks, appended, cancelVars, bootVars, injVars, dbVars, wsVars, tmVars, name_changed, hbVars, pp_trig, st_after, restartVars, ordVars>>
auxExceptOrd == <<rdVars, spscVars, dropped_ticks, appended, cancelVars, bootVars, injVars, dbVars, wsVars, tmVars, name_changed, hbVars, pp_trig, st_after, restartVars, lockVars>>
limitVars == <<cfg_dry_run, max_loss_limit, target_profit>>
flagVars == <<is_running, shutting_down, trading_enabled>>
statVars == <<trade_count, last_order_rtt_ns, db_chan>>
nameVars == <<active_strategy, name_lock>>
mainVars == <<main_pc, handler_set>>
sigVars == <<sig_pc, cleanup_done, shutdown, exec_rx, feed_rx, exited>>
feedVars == <<feed_pc, feed_n, feed_sub>>
stVars == <<st_pc, st_name, st_obj, st_out>>
exVars == <<ex_pc, ex_instr, ex_start, ex_read>>
clVars == <<tokens, http_count, cl_pc, cl_op, cl_instr, cl_result, cl_calls, cancel_calls>>
ctlVars == <<ctl_pc, ctl_cmd, ctl_resp, ctl_n>>
vars == <<pnlVars, pnlObs, auxVars, limitVars, flagVars, statVars, nameVars, mainVars,
          sigVars, feedVars, stVars, exVars, clVars, ctlVars, q1, q2,
          recent_logs, clock>>

\* ------------------------------------------------------------ rationals
Abs(x) == IF x < 0 THEN -x ELSE x

RECURSIVE GCD(_, _)
GCD(a, b) == IF b = 0 THEN a ELSE GCD(b, a % b)

\* The rational n/d (d # 0) in lowest terms with a positive denominator.
Rat(n, d) ==
    LET s == IF d < 0 THEN -1 ELSE 1
        g == GCD(Abs(n), Abs(d))
    IN  <<(s * n) \div g, (s * d) \div g>>

RInt(n) == <<n, 1>>
\* main.rs 271-273: the locals of auto-stop before they are read.
NoRead == [pnl |-> <<0, 1>>, max_loss |-> 0, target |-> 0]

RZero == <<0, 1>>
RAdd(a, b) == Rat(a[1] * b[2] + b[1] * a[2], a[2] * b[2])
RSub(a, b) == Rat(a[1] * b[2] - b[1] * a[2], a[2] * b[2])
RMul(a, b) == Rat(a[1] * b[1], a[2] * b[2])
RDivInt(a, k) == Rat(a[1], a[2] * k)
RLe(a, b) == a[1] * b[2] <= b[1] * a[2]
RLt(a, b) == a[1] * b[2] < b[1] * a[2]
RNeg(a) == <<-a[1], a[2]>>

\* ------------------------------------------ EngineState::update_from_trade
\* state.rs 93-97: the quantity closed by a reducing fill.
closing_qty_bad(old_pos, qty) == Abs(qty)
closing_qty(old_pos, qty) ==
    IF Abs(old_pos) < Abs(qty) THEN Abs(old_pos) ELSE Abs(qty)

\* state.rs 85-109: the realized P&L of one fill, fee deducted.
realized_pnl(old_pos, avg_entry, qty, price, fee) ==
    LET gross ==
            IF (old_pos > 0 /\ qty < 0) \/ (old_pos < 0 /\ qty > 0)
            THEN IF old_pos > 0
                 THEN RMul(RSub(RInt(price), avg_entry), RInt(closing_qty(old_pos, qty)))
                 ELSE RMul(RSub(avg_entry, RInt(price)), RInt(closing_qty(old_pos, qty)))
            ELSE RZero
    IN  RSub(gross, RInt(fee))

\* state.rs 111-123: the average entry price after one fill.
new_avg_entry_bad(old_pos, avg_entry, qty, price) ==
    LET new_pos == old_pos + qty
    IN  IF new_pos = 0 THEN RZero
        ELSE IF (old_pos >= 0 /\ qty > 0) \/ (old_pos <= 0 /\ qty < 0)
        THEN RInt(price)
        ELSE IF (old_pos > 0 /\ new_pos < 0) \/ (old_pos < 0 /\ new_pos > 0)
        THEN RInt(price)
        ELSE avg_entry
new_avg_entry(old_pos, avg_entry, qty, price) ==
    LET new_pos == old_pos + qty
    IN  IF new_pos = 0 THEN RZero
        ELSE IF (old_pos >= 0 /\ qty > 0) \/ (old_pos <= 0 /\ qty < 0)
        THEN RDivInt(RAdd(RMul(RInt(Abs(old_pos)), avg_entry), RInt(Abs(qty) * price)),
                     Abs(new_pos))
        ELSE IF (old_pos > 0 /\ new_pos < 0) \/ (old_pos < 0 /\ new_pos > 0)
        THEN RInt(price)
        ELSE avg_entry

\* state.rs 133-138: push onto the capped P&L series.
push_history(history, entry) ==
    IF Len(history) >= PNL_HISTORY_CAP
    THEN Append(Tail(history), entry)
    ELSE Append(history, entry)

\* state.rs 82-142 with the test of line 129 taken as always true.
update_from_trade_always_books(pos, avg_entry, pnl, history, qty, price, fee, ts) ==
    LET r == realized_pnl(pos, avg_entry, qty, price, fee)
        pnl1 == RAdd(pnl, r)
    IN  [ pos      |-> pos + qty,
          avg      |-> new_avg_entry(pos, avg_entry, qty, price),
          pnl      |-> pnl1,
          history  |-> push_history(history, <<ts, pnl1>>),
          realized |-> r ]

\* state.rs 82-142: the whole update, as the record of the fields it leaves
\* behind and the value it returns.  ts is the millisecond clock reading.
update_from_trade(pos, avg_entry, pnl, history, qty, price, fee, ts) ==
    LET r == realized_pnl(pos, avg_entry, qty, price, fee)
        book == (r # RZero) \/ (fee > 0)
        pnl1 == IF book THEN RAdd(pnl, r) ELSE pnl
    IN  [ pos      |-> pos + qty,
          avg      |-> new_avg_entry(pos, avg_entry, qty, price),
          pnl      |-> pnl1,
          history  |-> IF book THEN push_history(history, <<ts, pnl1>>) ELSE history,
          realized |-> r ]

\* ----------------------------------------------------- EngineState::add_log
\* state.rs 74-80.  A log line is a tuple: the fixed text and its arguments.
add_log_unbounded(logs, msg) == Append(logs, msg)
add_log_twice(logs, msg) == Append(Append(logs, msg), msg)
add_log(logs, msg) ==
    IF Len(logs) >= RECENT_LOGS_CAP
    THEN Append(Tail(logs), msg)
    ELSE Append(logs, msg)

\* ------------------------------------------------------------- risk_engine
\* lib.rs 33-56: RiskEngine::check; armed is the value is_armed() loads.
check_price_first(armed, instruction) ==
    IF ~armed THEN "System Disarmed"
    ELSE IF instruction.dry_run THEN "Ok"
    ELSE IF instruction.price <= 0 THEN "Invalid Price"
    ELSE IF instruction.quantity <= 0 THEN "Zero/Negative Quantity"
    ELSE "Ok"
check_unguarded(armed, instruction) ==
    IF instruction.dry_run THEN "Ok"
    ELSE IF instruction.quantity <= 0 THEN "Zero/Negative Quantity"
    ELSE IF instruction.price <= 0 THEN "Invalid Price"
    ELSE "Ok"
check(armed, instruction) ==
    IF ~armed THEN "System Disarmed"
    ELSE IF instruction.dry_run THEN "Ok"
    ELSE IF instruction.quantity <= 0 THEN "Zero/Negative Quantity"
    ELSE IF instruction.price <= 0 THEN "Invalid Price"
    ELSE "Ok"

\* ---------------------------------------------------------------- strategy
\* lib.rs 33-43: the names create_strategy knows.
StrategyNames == {"PING_PONG", "MOMENTUM", "LIQUIDATION"}
\* server.rs 227-251: set_strategy stores whatever name the request carries;
\* "SCALPER" stands for a name the registry does not know.
RequestedNames == StrategyNames \cup {"SCALPER"}
EventPrices == {49000, 50001}

\* types.rs 31-39: a TradeInstruction; src is the tick it was decided on
\* (the model's stand-in for its timestamp).
Instruction(side, event, dry_run) ==
    [ symbol |-> "BTCUSDT", side |-> side, order_type |-> "Market",
      price |-> event.price, quantity |-> 1, dry_run |-> dry_run,
      src |-> event.id ]

\* ping_pong.rs 11-17.
PingPongStrategy_new(dry_run, now) ==
    [ kind |-> "PING_PONG", last_trade_time |-> now - PP_BACKDATE_S,
      next_side |-> "Buy", dry_run |-> dry_run ]

\* momentum.rs 15-25.
MomentumStrategy_new(window_size, threshold, fee_taker) ==
    [ kind |-> "MOMENTUM", price_history |-> << >>, window_size |-> window_size,
      threshold |-> threshold, position |-> 0, last_signal_time |-> 0,
      fee_taker |-> fee_taker ]

\* liquidation.rs 16-29.
LiquidationStrategy_new(price_threshold, volume_multiplier) ==
    [ kind |-> "LIQUIDATION", price_history |-> << >>, volume_history |-> << >>,
      avg_volume |-> RZero, position |-> 0, last_signal_time |-> 0,
      price_threshold |-> price_threshold,
      volume_multiplier |-> volume_multiplier, window_size |-> LIQ_WINDOW ]

\* lib.rs 24-44: the registry; what run was given as _dry_run is not passed
\* on, and an unknown name gives ping-pong.
create_strategy(name, dry_run, now) ==
    IF name = "PING_PONG" THEN PingPongStrategy_new(FALSE, now)
    ELSE IF name = "MOMENTUM"
    THEN MomentumStrategy_new(RunArgs.strategy_window, RunArgs.strategy_threshold,
                              RunArgs.fee_taker)
    ELSE IF name = "LIQUIDATION"
    THEN LiquidationStrategy_new(RunArgs.price_threshold,
                                 RunArgs.volume_multiplier)
    ELSE PingPongStrategy_new(FALSE, now)

\* ping_pong.rs 19-52 without the price test of line 27.
pp_process_event_any_price(obj, event, disable_throttle, now) ==
    LET throttle_passed ==
            disable_throttle \/ (now - obj.last_trade_time > PP_THROTTLE_S)
    IN  IF throttle_passed
        THEN [ obj |-> [obj EXCEPT !.last_trade_time = now,
                                   !.next_side = IF obj.next_side = "Buy"
                                                 THEN "Sell" ELSE "Buy"],
               out |-> << Instruction(obj.next_side, event, obj.dry_run) >> ]
        ELSE [ obj |-> obj, out |-> << >> ]

\* ping_pong.rs 19-52 with the throttle test of line 25 taken as passed.
pp_process_event_unthrottled(obj, event, disable_throttle, now) ==
    IF event.price > PP_TRIGGER_PRICE
    THEN [ obj |-> [obj EXCEPT !.last_trade_time = now,
                               !.next_side = IF obj.next_side = "Buy"
                                             THEN "Sell" ELSE "Buy"],
           out |-> << Instruction(obj.next_side, event, obj.dry_run) >> ]
    ELSE [ obj |-> obj, out |-> << >> ]

\* ping_pong.rs 19-52.
pp_process_event(obj, event, disable_throttle, now) ==
    LET throttle_passed ==
            disable_throttle \/ (now - obj.last_trade_time > PP_THROTTLE_S)
    IN  IF event.price > PP_TRIGGER_PRICE /\ throttle_passed
        THEN [ obj |-> [obj EXCEPT !.last_trade_time = now,
                                   !.next_side = IF obj.next_side = "Buy"
                                                 THEN "Sell" ELSE "Buy"],
               out |-> << Instruction(obj.next_side, event, obj.dry_run) >> ]
        ELSE [ obj |-> obj, out |-> << >> ]

\* momentum.rs 31-150.
mom_process_event(obj, event, now) ==
    LET h0 == IF Len(obj.price_history) >= obj.window_size
              THEN Tail(obj.price_history) ELSE obj.price_history
        h1 == Append(h0, event.price)
        o1 == [obj EXCEPT !.price_history = h1]
        velocity == event.price - Head(h1)
        fee_cost == event.price * (obj.fee_taker * 2)
        effective_threshold == obj.threshold + fee_cost
        signal(side, pos) ==
            [ obj |-> [o1 EXCEPT !.position = pos, !.last_signal_time = now],
              out |-> << Instruction(side, event, FALSE) >> ]
        none == [ obj |-> o1, out |-> << >> ]
    IN  IF Len(h1) < obj.window_size THEN none
        ELSE IF now - obj.last_signal_time < MOM_COOLDOWN_S THEN none
        ELSE IF obj.position = 0
        THEN IF velocity > effective_threshold THEN signal("Buy", 1)
             ELSE IF velocity < -effective_threshold THEN signal("Sell", -1)
             ELSE none
        ELSE IF obj.position = 1
        THEN IF velocity < 0 THEN signal("Sell", 0) ELSE none
        ELSE IF velocity > 0 THEN signal("Buy", 0) ELSE none

\* The sum of the last n entries of a sequence of numbers.
RECURSIVE SumLast(_, _)
SumLast(s, n) ==
    IF n = 0 \/ s = << >> THEN 0
    ELSE s[Len(s)] + SumLast(SubSeq(s, 1, Len(s) - 1), n - 1)

\* liquidation.rs 34-158.
liq_process_event(obj, event, now) ==
    LET p0 == IF Len(obj.price_history) >= obj.window_size
              THEN Tail(obj.price_history) ELSE obj.price_history
        p1 == Append(p0, event.price)
        v0 == IF Len(obj.volume_history) >= obj.window_size
              THEN Tail(obj.volume_history) ELSE obj.volume_history
        v1 == Append(v0, event.quantity)
        avg_volume == Rat(SumLast(v1, Len(v1)), Len(v1))
        o1 == [obj EXCEPT !.price_history = p1, !.volume_history = v1,
                          !.avg_volume = avg_volume]
        price_velocity == event.price - Head(p1)
        burst_window == IF LIQ_BURST < Len(v1) THEN LIQ_BURST ELSE Len(v1)
        current_volume == SumLast(v1, burst_window)
        heavy == RLt(RMul(avg_volume, RInt(obj.volume_multiplier)),
                     RInt(current_volume))
        recent_avg_volume == Rat(current_volume, burst_window)
        signal(side, pos) ==
            [ obj |-> [o1 EXCEPT !.position = pos, !.last_signal_time = now],
              out |-> << Instruction(side, event, FALSE) >> ]
        none == [ obj |-> o1, out |-> << >> ]
    IN  IF Len(p1) < obj.window_size THEN none
        ELSE IF now - obj.last_signal_time < LIQ_COOLDOWN_S THEN none
        ELSE IF obj.position = 0
        THEN IF price_velocity > obj.price_threshold /\ heavy
             THEN signal("Buy", 1)
             ELSE IF price_velocity < -obj.price_threshold /\ heavy
             THEN signal("Sell", -1)
             ELSE none
        ELSE IF RLe(recent_avg_volume, avg_volume)
        THEN signal(IF obj.position = 1 THEN "Sell" ELSE "Buy", 0)
        ELSE none

\* lib.rs 109: dynamic dispatch on the strategy object.  The engine runs
\* ping-pong with its throttle on.
process_event(obj, event, now) ==
    IF obj.kind = "MOMENTUM" THEN mom_process_event(obj, event, now)
    ELSE IF obj.kind = "LIQUIDATION" THEN liq_process_event(obj, event, now)
    ELSE pp_process_event(obj, event, FALSE, now)

\* --------------------------------------------------------- ExecutionClient
\* client.rs 63-65: place_order returns before any I/O for a dry run.
place_order_short_circuit_missing(instruction) == FALSE
place_order_short_circuit(instruction) == instruction.dry_run

\* What the venue may answer to an order, and what place_order makes of it
\* (client.rs 96-128).
VenueResponses == {"2xx", "4xx", "auth"}
place_order_result(resp) ==
    IF resp = "2xx" THEN <<"Ok", "body">>
    ELSE IF resp = "auth" THEN <<"Err", "AUTH_ERROR">>
    ELSE <<"Err", "ExchangeError">>

\* ===========================================================================
\* The engine.  Every action is one step of one thread or task.  Steps are
\* cut where a store of another thread can change what follows: between the
\* strategy thread's read of is_running and its push, between the
\* dispatcher's pop, its read of is_running, its risk check and the return
\* of place_order, between the two stores of START and of STOP, and between
\* the stores of the shutdown handler.  Nothing runs once the process has
\* exited.
\* ===========================================================================
Running == ~exited

\* ------------------------------------------------------- main.rs: startup
\* What sync_positions may report for BTCUSDT, in lots.
SyncAmts == {0, 1}

\* What sync_positions returns (client.rs 132-177): the BTCUSDT amount, an
\* error whose text carries AUTH_ERROR, or any other error.
SyncResults ==
    { <<"Ok", amt>> : amt \in SyncAmts } \cup { <<"Err", "AUTH_ERROR">>, <<"Err", "other">> }

\* main.rs 85, client.rs 133-149: sync_positions takes a token of the rate
\* limiter and sends its request; main awaits the reply.
MainSyncRequest ==
    /\ Running /\ main_pc = "sync" /\ tokens > 0
    /\ tokens' = tokens - 1
    /\ http_count' = http_count + 1
    /\ main_pc' = "sync_wait"
    /\ UNCHANGED <<pnlVars, pnlObs, auxVars, limitVars, flagVars, statVars,
                   nameVars, handler_set, sigVars, feedVars, stVars, exVars,
                   cl_pc, cl_op, cl_instr, cl_result, cl_calls, cancel_calls,
                   ctlVars, q1, q2, recent_logs, clock>>

\* main.rs 85-102, client.rs 151-176: the reply.  On Ok the amount is stored
\* into current_position; on an AUTH_ERROR with trading enabled the process
\* exits with code 1; any other failure is only logged.
MainSyncReply ==
    /\ Running /\ main_pc = "sync_wait"
    /\ \E res \in SyncResults :
          /\ current_position' = IF res[1] = "Ok" THEN res[2] ELSE current_position
          /\ IF res = <<"Err", "AUTH_ERROR">> /\ cfg_enabled
             THEN /\ exited' = TRUE /\ exit_code' = 1
                  /\ UNCHANGED main_pc
             ELSE /\ main_pc' = "balance"
                  /\ UNCHANGED <<exited, exit_code>>
    /\ UNCHANGED <<avg_entry_price, current_pnl, pnl_history, pnlObs,
                   auxExceptBoot, cfg_enabled, cfg_keys, srv_pc, limitVars,
                   flagVars, statVars, nameVars, handler_set, sig_pc,
                   cleanup_done, shutdown, exec_rx, feed_rx, feedVars, stVars,
                   exVars, clVars, ctlVars, q1, q2, recent_logs, clock>>

\* main.rs 106-119: the balance sync issues one request; its outcome touches
\* nothing modelled here.
MainBalance ==
    /\ Running /\ main_pc = "balance" /\ tokens > 0
    /\ tokens' = tokens - 1
    /\ http_count' = http_count + 1
    /\ main_pc' = "install"
    /\ UNCHANGED <<pnlVars, pnlObs, auxVars, limitVars, flagVars, statVars,
                   nameVars, handler_set, sigVars, feedVars, stVars, exVars,
                   cl_pc, cl_op, cl_instr, cl_result, cl_calls, cancel_calls,
                   ctlVars, q1, q2, recent_logs, clock>>

\* main.rs 122-177: queues, shutdown signals, the Ctrl-C handler.
MainInstall ==
    /\ Running /\ main_pc = "install"
    /\ handler_set' = TRUE
    /\ main_pc' = "spawn"
    /\ UNCHANGED <<pnlVars, pnlObs, auxVars, limitVars, flagVars, statVars, nameVars,
                   sigVars, feedVars, stVars, exVars, clVars, ctlVars, q1, q2,
                   recent_logs, clock>>

\* main.rs 180-334: the strategy thread and the execution task are started,
\* the feed subscribes to the broadcast and is started.
MainSpawn ==
    /\ Running /\ main_pc = "spawn"
    /\ main_pc' = "join"
    /\ st_pc' = "init"
    /\ ex_pc' = "poll"
    /\ feed_sub' = TRUE
    /\ feed_pc' = "run"
    /\ UNCHANGED <<pnlVars, pnlObs, auxVars, limitVars, flagVars, statVars, nameVars,
                   handler_set, sigVars, feed_n, st_name, st_obj, st_out,
                   ex_instr, ex_start, ex_read, clVars, ctlVars, q1, q2,
                   recent_logs,
                   clock>>

\* main.rs 337-344: the strategy thread is joined, then the execution and
\* feed tasks; main returns and the process ends.
MainJoin ==
    /\ Running /\ main_pc = "join"
    /\ st_pc = "done" /\ ex_pc = "done" /\ feed_pc = "done"
    /\ main_pc' = "returned"
    /\ exited' = TRUE
    /\ UNCHANGED <<pnlVars, pnlObs, auxVars, limitVars, flagVars, statVars, nameVars,
                   handler_set, sig_pc, cleanup_done, shutdown, exec_rx, feed_rx,
                   feedVars, stVars, exVars, clVars, ctlVars, q1, q2,
                   recent_logs, clock>>

\* ------------------------------------------------ main.rs 141-176: Ctrl-C
SigSet(h, pc) == sig_pc' = [sig_pc EXCEPT ![h] = pc]

\* Deliveries are numbered in the order they arrive.
SigDeliver(h) ==
    /\ Running /\ handler_set /\ sig_pc[h] = "idle"
    /\ \A g \in 1..(h - 1) : sig_pc[g] # "idle"
    /\ SigSet(h, "latch")
    /\ UNCHANGED <<pnlVars, pnlObs, auxVars, limitVars, flagVars, statVars, nameVars,
                   mainVars, cleanup_done, shutdown, exec_rx, feed_rx, exited,
                   feedVars, stVars, exVars, clVars, ctlVars, q1, q2,
                   recent_logs, clock>>

\* main.rs 142-144: cleanup_done.swap(true); the result of the swap.
latch_passes_always(was_done) == TRUE
latch_passes(was_done) == ~was_done

SigLatch(h) ==
    /\ Running /\ sig_pc[h] = "latch"
    /\ cleanup_done' = TRUE
    /\ SigSet(h, IF latch_passes(cleanup_done) THEN "mark" ELSE "returned")
    /\ UNCHANGED <<pnlVars, pnlObs, auxVars, limitVars, flagVars, statVars, nameVars,
                   mainVars, shutdown, exec_rx, feed_rx, exited, feedVars,
                   stVars, exVars, clVars, ctlVars, q1, q2, recent_logs, clock>>

\* main.rs 149.
SigMark(h) ==
    /\ Running /\ sig_pc[h] = "mark"
    /\ shutting_down' = TRUE
    /\ db_at_mark' = db_chan
    /\ SigSet(h, "stop")
    /\ UNCHANGED <<pnlVars, pnlObs, auxExceptDb, db_pc, db_buf, db_rows,
                   db_lost, db_last_flush, limitVars, is_running, trading_enabled,
                   statVars, nameVars, mainVars, cleanup_done, shutdown, exec_rx,
                   feed_rx, exited, feedVars, stVars, exVars, clVars, ctlVars,
                   q1, q2, recent_logs, clock>>

\* main.rs 150.
SigStop(h) ==
    /\ Running /\ sig_pc[h] = "stop"
    /\ is_running' = FALSE
    /\ SigSet(h, "bcast")
    /\ UNCHANGED <<pnlVars, pnlObs, auxVars, limitVars, shutting_down, trading_enabled,
                   statVars, nameVars, mainVars, cleanup_done, shutdown, exec_rx,
                   feed_rx, exited, feedVars, stVars, exVars, clVars, ctlVars,
                   q1, q2, recent_logs, clock>>

\* main.rs 153: the broadcast reaches every receiver subscribed by now.
SigBroadcast(h) ==
    /\ Running /\ sig_pc[h] = "bcast"
    /\ exec_rx' = TRUE
    /\ feed_rx' = feed_sub
    /\ SigSet(h, "drain")
    /\ UNCHANGED <<pnlVars, pnlObs, auxVars, limitVars, flagVars, statVars, nameVars,
                   mainVars, cleanup_done, shutdown, exited, feedVars, stVars,
                   exVars, clVars, ctlVars, q1, q2, recent_logs, clock>>

\* main.rs 156.
SigDrain(h) ==
    /\ Running /\ sig_pc[h] = "drain"
    /\ shutdown' = TRUE
    /\ SigSet(h, "cancel")
    /\ UNCHANGED <<pnlVars, pnlObs, auxVars, limitVars, flagVars, statVars, nameVars,
                   mainVars, cleanup_done, exec_rx, feed_rx, exited, feedVars,
                   stVars, exVars, clVars, ctlVars, q1, q2, recent_logs, clock>>

\* main.rs 159-162: the async block handed to block_on is empty; no call is
\* made on the execution client.
SigCancel(h) ==
    /\ Running /\ sig_pc[h] = "cancel"
    /\ SigSet(h, "disarm")
    /\ UNCHANGED <<pnlVars, pnlObs, auxVars, limitVars, flagVars, statVars, nameVars,
                   mainVars, cleanup_done, shutdown, exec_rx, feed_rx, exited,
                   feedVars, stVars, exVars, clVars, ctlVars, q1, q2,
                   recent_logs, clock>>

\* main.rs 166.
SigDisarm(h) ==
    /\ Running /\ sig_pc[h] = "disarm"
    /\ trading_enabled' = FALSE
    /\ SigSet(h, "flush")
    /\ UNCHANGED <<pnlVars, pnlObs, auxVars, limitVars, is_running, shutting_down,
                   statVars, nameVars, mainVars, cleanup_done, shutdown, exec_rx,
                   feed_rx, exited, feedVars, stVars, exVars, clVars, ctlVars,
                   q1, q2, recent_logs, clock>>

\* main.rs 170-175: db.flush() (db.rs 196-202, an empty body), then exit(0).
SigExit(h) ==
    /\ Running /\ sig_pc[h] = "flush"
    /\ exited' = TRUE
    /\ exit_code' = 0
    /\ SigSet(h, "exit")
    /\ UNCHANGED <<pnlVars, pnlObs, auxExceptBoot, cfg_enabled, cfg_keys, srv_pc,
                   limitVars, flagVars, statVars, nameVars,
                   mainVars, cleanup_done, shutdown, exec_rx, feed_rx, feedVars,
                   stVars, exVars, clVars, ctlVars, q1, q2, recent_logs, clock>>

\* ------------------------------------------------- server.rs: control plane
\* The requests the model sends: POST /api/control with each command, and
\* POST /api/strategy with each name.
ControlRequests ==
    { [route |-> "control", command |-> c, confirm |-> TRUE] :
          c \in {"START", "STOP", "FLATTEN", "BOGUS"} }
    \cup { [route |-> "control", command |-> "FLATTEN", confirm |-> FALSE] }
StrategyRequests ==
    { [route |-> "strategy", strategy |-> n] : n \in RequestedNames }

\* The request a handler is working on; none once it has answered.
NoRequest == [route |-> "none"]

\* server.rs 142-150: the shutting_down guard of control_engine; sd is the
\* value loaded.
control_refused_never(sd) == FALSE
control_refused(sd) == sd

\* server.rs 138-207: a POST /api/control is handled up to its first store.
\* The guard answers 503; an unknown command and a FLATTEN without
\* confirmation answer at once; START and STOP go on to their stores and a
\* confirmed FLATTEN to its log line.
ControlRequest(limit) ==
    /\ Running /\ ctl_pc = "idle" /\ ctl_n < limit
    /\ ctl_n' = ctl_n + 1
    /\ \E r \in ControlRequests :
          LET proceeds == /\ ~control_refused(shutting_down)
                          /\ \/ r.command \in {"START", "STOP"}
                             \/ r.command = "FLATTEN" /\ r.confirm
          IN  /\ ctl_cmd' = IF proceeds THEN r ELSE NoRequest
              /\ IF control_refused(shutting_down)
                 THEN ctl_resp' = 503 /\ ctl_pc' = "idle"
                 ELSE IF r.command = "START"
                 THEN ctl_pc' = "start" /\ ctl_resp' = 0
                 ELSE IF r.command = "STOP"
                 THEN ctl_pc' = "stop" /\ ctl_resp' = 0
                 ELSE IF r.command = "FLATTEN" /\ r.confirm
                 THEN ctl_pc' = "flatten" /\ ctl_resp' = 0
                 ELSE ctl_resp' = 400 /\ ctl_pc' = "idle"
    /\ UNCHANGED <<pnlVars, pnlObs, auxVars, limitVars, flagVars, statVars, nameVars,
                   mainVars, sigVars, feedVars, stVars, exVars, clVars, q1, q2,
                   recent_logs, clock>>

CtlControl == ControlRequest(MaxCmds)

\* server.rs 154.
StartStore ==
    /\ Running /\ ctl_pc = "start"
    /\ is_running' = TRUE
    /\ ctl_pc' = "arm"
    /\ UNCHANGED <<pnlVars, pnlObs, limitVars, shutting_down, trading_enabled,
                   statVars, nameVars, mainVars, sigVars, feedVars, stVars,
                   exVars, clVars, ctl_cmd, ctl_resp, ctl_n, q1, q2, recent_logs,
                   clock>>

CtlStartRun == StartStore /\ UNCHANGED auxVars

\* server.rs 155: arm().
CtlStartArm ==
    /\ Running /\ ctl_pc = "arm"
    /\ trading_enabled' = TRUE
    /\ ctl_pc' = "start_log"
    /\ UNCHANGED <<pnlVars, pnlObs, auxVars, limitVars, is_running, shutting_down,
                   statVars, nameVars, mainVars, sigVars, feedVars, stVars,
                   exVars, clVars, ctl_cmd, ctl_resp, ctl_n, q1, q2,
                   recent_logs, clock>>

\* server.rs 156-161: the log line, 200.
CtlStartLog ==
    /\ Running /\ ctl_pc = "start_log"
    /\ recent_logs' = add_log(recent_logs, <<"System Started">>)
    /\ ctl_resp' = 200 /\ ctl_pc' = "idle" /\ ctl_cmd' = NoRequest
    /\ UNCHANGED <<pnlVars, pnlObs, auxVars, limitVars, flagVars, statVars,
                   nameVars, mainVars, sigVars, feedVars, stVars, exVars,
                   clVars, ctl_n, q1, q2, clock>>

\* server.rs 164.
StopStore ==
    /\ Running /\ ctl_pc = "stop"
    /\ is_running' = FALSE
    /\ ctl_pc' = "disarm"
    /\ UNCHANGED <<pnlVars, pnlObs, limitVars, shutting_down, trading_enabled,
                   statVars, nameVars, mainVars, sigVars, feedVars, stVars,
                   exVars, clVars, ctl_cmd, ctl_resp, ctl_n, q1, q2, recent_logs,
                   clock>>

CtlStopRun == StopStore /\ UNCHANGED auxVars

\* server.rs 165: disarm().
CtlStopDisarm ==
    /\ Running /\ ctl_pc = "disarm"
    /\ trading_enabled' = FALSE
    /\ ctl_pc' = "stop_log"
    /\ UNCHANGED <<pnlVars, pnlObs, auxVars, limitVars, is_running, shutting_down,
                   statVars, nameVars, mainVars, sigVars, feedVars, stVars,
                   exVars, clVars, ctl_cmd, ctl_resp, ctl_n, q1, q2,
                   recent_logs, clock>>

\* server.rs 166-171: the log line, 200.
CtlStopLog ==
    /\ Running /\ ctl_pc = "stop_log"
    /\ recent_logs' = add_log(recent_logs, <<"System Stopped">>)
    /\ ctl_resp' = 200 /\ ctl_pc' = "idle" /\ ctl_cmd' = NoRequest
    /\ UNCHANGED <<pnlVars, pnlObs, auxVars, limitVars, flagVars, statVars,
                   nameVars, mainVars, sigVars, feedVars, stVars, exVars,
                   clVars, ctl_n, q1, q2, clock>>

\* server.rs 186-198: the log line of a confirmed FLATTEN, 202.
CtlFlatten ==
    /\ Running /\ ctl_pc = "flatten"
    /\ recent_logs' = add_log(recent_logs, <<"FLATTEN command received">>)
    /\ ctl_resp' = 202 /\ ctl_pc' = "idle" /\ ctl_cmd' = NoRequest
    /\ UNCHANGED <<pnlVars, pnlObs, auxVars, limitVars, flagVars, statVars,
                   nameVars, mainVars, sigVars, feedVars, stVars, exVars,
                   clVars, ctl_n, q1, q2, clock>>

\* server.rs 227-240: a POST /api/strategy is handled up to its lock:
\* set_strategy reads the position and answers 409 unless it is flat
\* (|position| > 1e-6 is position # 0 in lots).
StrategyRequest(limit) ==
    /\ Running /\ ctl_pc = "idle" /\ ctl_n < limit
    /\ ctl_n' = ctl_n + 1
    /\ \E r \in StrategyRequests :
          ctl_cmd' = IF current_position # 0 THEN NoRequest ELSE r
    /\ IF current_position # 0
       THEN ctl_resp' = 409 /\ ctl_pc' = "idle"
       ELSE ctl_resp' = 0 /\ ctl_pc' = "strat_lock"
    /\ UNCHANGED <<pnlVars, pnlObs, auxVars, limitVars, flagVars, statVars, nameVars,
                   mainVars, sigVars, feedVars, stVars, exVars, clVars, q1, q2,
                   recent_logs, clock>>

CtlStrategy == StrategyRequest(MaxCmds)

\* server.rs 242: active_strategy.lock().
CtlStrategyLock ==
    /\ Running /\ ctl_pc = "strat_lock" /\ name_lock = "free"
    /\ name_lock' = "ctl"
    /\ ctl_pc' = "strat_set"
    /\ UNCHANGED <<pnlVars, pnlObs, auxVars, limitVars, flagVars, statVars,
                   active_strategy, mainVars, sigVars, feedVars, stVars, exVars,
                   clVars, ctl_cmd, ctl_resp, ctl_n, q1, q2, recent_logs, clock>>

\* server.rs 242: the name is overwritten and the guard dropped at the end of
\* the statement.
StrategyStore ==
    /\ Running /\ ctl_pc = "strat_set"
    /\ active_strategy' = ctl_cmd.strategy
    /\ name_lock' = "free"
    /\ ctl_pc' = "strat_log"
    /\ UNCHANGED <<pnlVars, pnlObs, limitVars, flagVars, statVars, mainVars,
                   sigVars, feedVars, stVars, exVars, clVars, ctl_cmd, ctl_resp,
                   ctl_n, q1, q2, recent_logs, clock>>

CtlStrategySet == StrategyStore /\ UNCHANGED auxVars

\* server.rs 243-250: the log line, 200.
CtlStrategyLog ==
    /\ Running /\ ctl_pc = "strat_log"
    /\ recent_logs' = add_log(recent_logs, <<"Strategy changed to", ctl_cmd.strategy>>)
    /\ ctl_resp' = 200 /\ ctl_pc' = "idle" /\ ctl_cmd' = NoRequest
    /\ UNCHANGED <<pnlVars, pnlObs, auxVars, limitVars, flagVars, statVars,
                   nameVars, mainVars, sigVars, feedVars, stVars, exVars,
                   clVars, ctl_n, q1, q2, clock>>

\* ------------------------------------------------ main.rs 303-334: feed task
\* main.rs 321-330: one tick is received, its timestamp stored and the tick
\* counted, and it is pushed onto Q1; a push onto a full queue fails and the
\* tick is gone.
FeedPush(limit) ==
    /\ Running /\ feed_pc = "run" /\ feed_n < limit
    /\ last_tick_timestamp' = feed_n + 1
    /\ ticks_counter' = ticks_counter + 1
    /\ \E price \in EventPrices :
          q1' = IF Len(q1) < QCap
                THEN Append(q1, [price |-> price, quantity |-> 1, id |-> feed_n + 1])
                ELSE q1
    /\ feed_n' = feed_n + 1
    /\ UNCHANGED <<pnlVars, pnlObs, auxExceptTicks, current_tps, ws_parsed,
                   limitVars, flagVars, statVars, nameVars, mainVars, sigVars,
                   feed_pc, feed_sub, stVars, exVars, clVars, ctlVars, q2,
                   recent_logs, clock>>

\* The same with the reconnect loop left out: a tick is there to be received.
FeedReceive(limit) == FeedPush(limit) /\ UNCHANGED wsVars

FeedTick == FeedReceive(MaxEvents)

\* main.rs 318-320: the broadcast is received and the loop left.
FeedStop ==
    /\ Running /\ feed_pc = "run" /\ feed_rx
    /\ feed_pc' = "done"
    /\ feed_rx' = FALSE
    /\ UNCHANGED <<pnlVars, pnlObs, auxVars, limitVars, flagVars, statVars, nameVars,
                   mainVars, sig_pc, cleanup_done, shutdown, exec_rx, exited,
                   feed_n, feed_sub, stVars, exVars, clVars, ctlVars, q1, q2,
                   recent_logs, clock>>

\* The clock advances, up to the reading last.
TickUntil(last) ==
    /\ Running /\ clock < last
    /\ clock' = clock + TickSeconds
    /\ UNCHANGED <<pnlVars, pnlObs, auxVars, limitVars, flagVars, statVars, nameVars,
                   mainVars, sigVars, feedVars, stVars, exVars, clVars, ctlVars,
                   q1, q2, recent_logs>>

Tick == TickUntil(MaxClock * TickSeconds)

\* ------------------------------------------- strategy/lib.rs: strategy::run
\* lib.rs 67-77: the thread reads the active name and builds its strategy.
StInit ==
    /\ Running /\ st_pc = "init" /\ name_lock = "free"
    /\ st_name' = active_strategy
    /\ st_obj' = create_strategy(active_strategy, cfg_dry_run, clock)
    /\ st_pc' = "loop"
    /\ UNCHANGED <<pnlVars, pnlObs, auxVars, limitVars, flagVars, statVars, nameVars,
                   mainVars, sigVars, feedVars, st_out, exVars, clVars, ctlVars,
                   q1, q2, recent_logs, clock>>

\* lib.rs 79: the test of the while loop; fl is the value loaded.
loop_continues_always(fl) == TRUE
loop_continues(fl) == ~fl

\* lib.rs 79: the loop loads the shutdown flag and goes on to its body or
\* ends.
StTestFlag ==
    /\ Running /\ st_pc = "loop"
    /\ st_pc' = IF loop_continues(shutdown) THEN "running" ELSE "done"
    /\ UNCHANGED <<pnlVars, pnlObs, limitVars, flagVars, statVars, nameVars,
                   mainVars, sigVars, feedVars, st_name, st_obj, st_out, exVars,
                   clVars, ctlVars, q1, q2, recent_logs, clock>>

StLoop == StTestFlag /\ UNCHANGED auxVars

\* lib.rs 81-84: the iteration goes on only if is_running was read true.
strategy_proceeds_always(running) == TRUE
strategy_proceeds(running) == running

\* lib.rs 81-84: the load of is_running; a stopped engine ends the iteration.
StLoadRunning ==
    /\ Running /\ st_pc = "running"
    /\ st_pc' = IF strategy_proceeds(is_running) THEN "name" ELSE "loop"
    /\ UNCHANGED <<pnlVars, pnlObs, limitVars, flagVars, statVars, nameVars,
                   mainVars, sigVars, feedVars, st_name, st_obj, st_out, exVars,
                   clVars, ctlVars, q1, q2, recent_logs, clock>>

StRunning == StLoadRunning /\ UNCHANGED auxVars

\* lib.rs 87-101: the name is compared under try_lock and the guard dropped;
\* a changed name builds a fresh strategy, a held lock leaves the old one.
StCompareName ==
    /\ Running /\ st_pc = "name"
    /\ LET switch == name_lock = "free" /\ active_strategy # st_name
       IN  /\ st_name' = IF switch THEN active_strategy ELSE st_name
           /\ st_obj' = IF switch
                        THEN create_strategy(active_strategy, cfg_dry_run, clock)
                        ELSE st_obj
    /\ st_pc' = "pop"
    /\ UNCHANGED <<pnlVars, pnlObs, limitVars, flagVars, statVars, nameVars,
                   mainVars, sigVars, feedVars, st_out, exVars, clVars, ctlVars,
                   q1, q2, recent_logs, clock>>

StName == StCompareName /\ UNCHANGED auxVars

\* lib.rs 103-109: Q1 is popped; an empty queue ends the iteration, an event
\* is handed to the strategy.
StTakeEvent ==
    /\ Running /\ st_pc = "pop"
    /\ IF q1 = << >>
       THEN /\ st_pc' = "loop"
            /\ UNCHANGED <<st_obj, st_out, q1>>
       ELSE LET r == process_event(st_obj, Head(q1), clock)
            IN  /\ q1' = Tail(q1)
                /\ st_obj' = r.obj
                /\ st_out' = r.out
                /\ st_pc' = IF r.out = << >> THEN "loop" ELSE "push"
    /\ UNCHANGED <<pnlVars, pnlObs, limitVars, flagVars, statVars, nameVars,
                   mainVars, sigVars, feedVars, st_name, exVars, clVars, ctlVars,
                   q2, recent_logs, clock>>

StPop == StTakeEvent /\ UNCHANGED auxVars

\* lib.rs 110-112: push onto Q2, a queue of the given capacity; on a full
\* queue the instruction is dropped.
StPushOnto(capacity) ==
    /\ Running /\ st_pc = "push"
    /\ q2' = IF Len(q2) < capacity THEN Append(q2, st_out[1]) ELSE q2
    /\ st_out' = << >>
    /\ st_pc' = "loop"
    /\ UNCHANGED <<pnlVars, pnlObs, limitVars, flagVars, statVars, nameVars,
                   mainVars, sigVars, feedVars, st_name, st_obj, exVars, clVars,
                   ctlVars, q1, recent_logs, clock>>

StPushInstruction == StPushOnto(QCap)
StPush == StPushInstruction /\ UNCHANGED auxVars

\* --------------------------------------- main.rs 205-296: execution task
\* main.rs 212: what Consumer::pop leaves on the queue.
pop_rest_whole(q) == q
pop_rest(q) == Tail(q)

\* main.rs 208-213, 290-292: the broadcast ends the loop; otherwise Q2 is
\* popped.
ExPop ==
    /\ Running /\ ex_pc = "poll"
    /\ IF exec_rx
       THEN /\ ex_pc' = "done" /\ exec_rx' = FALSE
            /\ UNCHANGED <<q2, ex_instr>>
       ELSE IF q2 = << >>
       THEN UNCHANGED <<ex_pc, exec_rx, q2, ex_instr>>
       ELSE /\ ex_instr' = << Head(q2) >>
            /\ q2' = pop_rest(q2)
            /\ ex_pc' = "gate"
            /\ UNCHANGED exec_rx
    /\ UNCHANGED <<pnlVars, pnlObs, limitVars, flagVars, statVars, nameVars,
                   mainVars, sig_pc, cleanup_done, shutdown, feed_rx, exited,
                   feedVars, stVars, ex_start, ex_read, clVars, ctlVars, q1,
                   recent_logs, clock>>

ExPoll == ExPop /\ UNCHANGED auxVars

\* main.rs 215-217: the instruction is dropped if is_running was read false.
dispatcher_proceeds_always(running) == TRUE
dispatcher_proceeds(running) == running

ExGate ==
    /\ Running /\ ex_pc = "gate"
    /\ IF dispatcher_proceeds(is_running)
       THEN ex_pc' = "risk" /\ UNCHANGED ex_instr
       ELSE ex_pc' = "poll" /\ ex_instr' = << >>
    /\ UNCHANGED <<pnlVars, pnlObs, auxVars, limitVars, flagVars, statVars, nameVars,
                   mainVars, sigVars, feedVars, stVars, ex_start, ex_read,
                   clVars, ctlVars, q1, q2, recent_logs, clock>>

\* client.rs 62-67: place_order is entered.  A dry run returns at once;
\* otherwise the call waits for the rate limiter.
ClBeginPlaceOrder(instruction) ==
    /\ cl_pc = "idle"
    /\ cl_op' = "place_order"
    /\ cl_instr' = << instruction >>
    /\ cl_calls' = cl_calls + 1
    /\ IF place_order_short_circuit(instruction)
       THEN cl_result' = <<"Ok", "DRY_RUN_SUCCESS">> /\ cl_pc' = "idle"
       ELSE cl_result' = <<"Pending">> /\ cl_pc' = "limit"
    /\ UNCHANGED <<tokens, http_count, cancel_calls>>

\* main.rs 222-231: Risk.check; a rejection is logged and the instruction
\* dropped, otherwise the start time is taken and place_order called.
ExCheck ==
    /\ Running /\ ex_pc = "risk"
    /\ LET e == check(trading_enabled, ex_instr[1])
       IN  IF e # "Ok"
           THEN /\ recent_logs' = add_log(recent_logs, <<"Risk Reject", e>>)
                /\ ex_instr' = << >>
                /\ ex_pc' = "poll"
                /\ UNCHANGED <<ex_start, clVars>>
           ELSE /\ ex_start' = clock
                /\ ClBeginPlaceOrder(ex_instr[1])
                /\ ex_pc' = "wait"
                /\ UNCHANGED <<recent_logs, ex_instr>>
    /\ UNCHANGED <<pnlVars, pnlObs, limitVars, flagVars, statVars, nameVars,
                   mainVars, sigVars, feedVars, stVars, ex_read, ctlVars, q1, q2,
                   clock>>

ExRisk == ExCheck /\ UNCHANGED auxVars

\* client.rs 57-59, 67-103: a token is taken and the request is sent.
ClRateLimit ==
    /\ Running /\ cl_pc = "limit" /\ tokens > 0
    /\ tokens' = tokens - 1
    /\ http_count' = http_count + 1
    /\ cl_pc' = "sent"
    /\ UNCHANGED <<pnlVars, pnlObs, auxVars, limitVars, flagVars, statVars, nameVars,
                   mainVars, sigVars, feedVars, stVars, exVars, cl_op, cl_instr,
                   cl_result, cl_calls, cancel_calls, ctlVars, q1, q2,
                   recent_logs, clock>>

\* What the call in progress may return now: the value a dry run has
\* already produced, or what place_order makes of the venue's answer.
ReturnValues ==
    IF cl_pc = "idle" THEN {cl_result}
    ELSE IF cl_pc = "sent" THEN {place_order_result(resp) : resp \in VenueResponses}
    ELSE {}

place_order_succeeded_always(res) == TRUE
\* main.rs 231-232, 284: the match on what place_order returned.
place_order_succeeded(res) == res[1] = "Ok"

\* main.rs 231-237, 284-287: place_order has returned.  On Ok the RTT is
\* stored and trade_count incremented; on Err the failure is logged and the
\* instruction dropped.
ExResult ==
    /\ Running /\ ex_pc = "wait"
    /\ \E res \in ReturnValues :
          /\ cl_result' = res
          /\ IF place_order_succeeded(res)
             THEN /\ last_order_rtt_ns' = clock - ex_start
                  /\ trade_count' = trade_count + 1
                  /\ ex_pc' = "log"
                  /\ UNCHANGED <<ex_instr, recent_logs, db_chan>>
             ELSE /\ recent_logs' = add_log(recent_logs, <<"Order Failed", res[2]>>)
                  /\ ex_instr' = << >>
                  /\ ex_pc' = "poll"
                  /\ UNCHANGED statVars
    /\ cl_pc' = "idle" /\ cl_instr' = << >>
    /\ ex_start' = 0
    /\ UNCHANGED <<pnlVars, pnlObs, auxVars, limitVars, flagVars, nameVars,
                   mainVars, sigVars, feedVars, stVars, ex_read, tokens,
                   http_count, cl_op, cl_calls, cancel_calls, ctlVars, q1, q2,
                   clock>>

\* main.rs 238-241: the order is logged.
ExLog ==
    /\ Running /\ ex_pc = "log"
    /\ recent_logs' = add_log(recent_logs,
           <<"Order Placed", ex_instr[1].side, ex_instr[1].price>>)
    /\ ex_pc' = "account"
    /\ UNCHANGED <<pnlVars, pnlObs, auxVars, limitVars, flagVars, statVars,
                   nameVars, mainVars, sigVars, feedVars, stVars, ex_instr,
                   ex_start, ex_read, clVars, ctlVars, q1, q2, clock>>

\* main.rs 244-249: update_from_trade is called with the signed quantity
\* (main.rs passes no fee: 0 here).
ExAccount ==
    /\ Running /\ ex_pc = "account"
    /\ LET i == ex_instr[1]
           signed_qty == IF i.side = "Buy" THEN i.quantity ELSE -i.quantity
           u == update_from_trade(current_position, avg_entry_price,
                                  current_pnl, pnl_history, signed_qty,
                                  i.price, 0, clock)
       IN  /\ current_position' = u.pos
           /\ avg_entry_price' = u.avg
           /\ current_pnl' = u.pnl
           /\ pnl_history' = u.history
    /\ ex_pc' = "insert"
    /\ UNCHANGED <<pnlObs, auxVars, limitVars, flagVars, statVars, nameVars,
                   mainVars, sigVars, feedVars, stVars, ex_instr, ex_start,
                   ex_read, clVars, ctlVars, q1, q2, recent_logs, clock>>

\* The records accepted by insert_trade that the writer has not yet received:
\* those sent, less those committed or lost and those in the buffer (which
\* are counted as committed or lost once flush_buffer has returned).
InChannel ==
    db_chan - db_rows - db_lost - (IF db_pc = "clear" THEN 0 ELSE db_buf)

\* db.rs 72, 145-156: try_send onto the channel of DB_CHANNEL_CAP records; on
\* a full channel the record is dropped.  The writer task holds the receiver
\* for as long as the process lives, so the channel is never closed.
insert_trade(accepted, in_channel) ==
    IF in_channel < DB_CHANNEL_CAP THEN accepted + 1 ELSE accepted

\* main.rs 252-268: the TradeRecord is handed to insert_trade.
ExInsert ==
    /\ Running /\ ex_pc = "insert"
    /\ db_chan' = insert_trade(db_chan, InChannel)
    /\ ex_pc' = "autostop"
    /\ UNCHANGED <<pnlVars, pnlObs, auxVars, limitVars, flagVars, trade_count,
                   last_order_rtt_ns, nameVars, mainVars, sigVars, feedVars,
                   stVars, ex_instr, ex_start, ex_read, clVars, ctlVars, q1, q2,
                   recent_logs, clock>>

\* main.rs 271: auto-stop reads current_pnl under its lock.
ExReadPnl ==
    /\ Running /\ ex_pc = "autostop"
    /\ ex_read' = [ex_read EXCEPT !.pnl = current_pnl]
    /\ ex_pc' = "read_loss"
    /\ UNCHANGED <<pnlVars, pnlObs, auxVars, limitVars, flagVars, statVars,
                   nameVars, mainVars, sigVars, feedVars, stVars, ex_instr,
                   ex_start, clVars, ctlVars, q1, q2, recent_logs, clock>>

\* main.rs 272: it reads max_loss_limit under its lock.
ExReadLoss ==
    /\ Running /\ ex_pc = "read_loss"
    /\ ex_read' = [ex_read EXCEPT !.max_loss = max_loss_limit]
    /\ ex_pc' = "read_target"
    /\ UNCHANGED <<pnlVars, pnlObs, auxVars, limitVars, flagVars, statVars,
                   nameVars, mainVars, sigVars, feedVars, stVars, ex_instr,
                   ex_start, clVars, ctlVars, q1, q2, recent_logs, clock>>

\* main.rs 273: it reads target_profit under its lock.
ExReadTarget ==
    /\ Running /\ ex_pc = "read_target"
    /\ ex_read' = [ex_read EXCEPT !.target = target_profit]
    /\ ex_pc' = "stop_loss"
    /\ UNCHANGED <<pnlVars, pnlObs, auxVars, limitVars, flagVars, statVars,
                   nameVars, mainVars, sigVars, feedVars, stVars, ex_instr,
                   ex_start, clVars, ctlVars, q1, q2, recent_logs, clock>>

\* main.rs 275: the loss limit is hit.
stop_on_loss(pnl, max_loss) == RLe(pnl, RInt(-max_loss))

stop_on_target_any(pnl, target) == RLe(RInt(target), pnl)
\* main.rs 279: the profit target is set and hit.
stop_on_target(pnl, target) == target > 0 /\ RLe(RInt(target), pnl)

\* main.rs 275-278: is_running is cleared if the loss limit was hit.
ExStopLoss ==
    /\ Running /\ ex_pc = "stop_loss"
    /\ is_running' = IF stop_on_loss(ex_read.pnl, ex_read.max_loss)
                     THEN FALSE ELSE is_running
    /\ ex_pc' = "stop_target"
    /\ UNCHANGED <<pnlVars, pnlObs, auxVars, limitVars, shutting_down,
                   trading_enabled, statVars, nameVars, mainVars, sigVars,
                   feedVars, stVars, ex_instr, ex_start, ex_read, clVars,
                   ctlVars, q1, q2, recent_logs, clock>>

\* main.rs 279-283: is_running is cleared if the profit target was hit; the
\* dispatcher goes back to Q2.
ExAutoStop ==
    /\ Running /\ ex_pc = "stop_target"
    /\ is_running' = IF stop_on_target(ex_read.pnl, ex_read.target)
                     THEN FALSE ELSE is_running
    /\ ex_instr' = << >>
    /\ ex_read' = NoRead
    /\ ex_pc' = "poll"
    /\ UNCHANGED <<pnlVars, pnlObs, auxVars, limitVars, shutting_down,
                   trading_enabled, statVars, nameVars, mainVars, sigVars,
                   feedVars, stVars, ex_start, clVars, ctlVars, q1, q2,
                   recent_logs, clock>>

\* ------------------------------------------------------------------ engine
InitEngineCore ==
    /\ is_running = FALSE /\ shutting_down = FALSE /\ trading_enabled = FALSE
    /\ trade_count = 0 /\ last_order_rtt_ns = 0 /\ db_chan = 0
    /\ max_loss_limit = Config.max_drawdown /\ target_profit = 0
    /\ active_strategy = "PING_PONG" /\ name_lock = "free"
    /\ handler_set = FALSE
    /\ q1 = << >> /\ q2 = << >>
    /\ shutdown = FALSE /\ cleanup_done = FALSE
    /\ exec_rx = FALSE /\ feed_sub = FALSE /\ feed_rx = FALSE
    /\ exited = FALSE
    /\ feed_pc = "off" /\ feed_n = 0
    /\ st_pc = "off" /\ st_name = "" /\ st_obj = [kind |-> "none"] /\ st_out = << >>
    /\ ex_pc = "off" /\ ex_instr = << >> /\ ex_start = 0 /\ ex_read = NoRead
    /\ ctl_pc = "idle" /\ ctl_cmd = NoRequest /\ ctl_resp = 0 /\ ctl_n = 0
    /\ clock = 0

InitEngine == InitEngineCore /\ recent_logs = << >>

InitClient ==
    /\ tokens = RATE_BURST /\ http_count = 0
    /\ cl_pc = "idle" /\ cl_op = "none" /\ cl_instr = << >>
    /\ cl_result = <<"None">> /\ cl_calls = 0 /\ cancel_calls = 0

\* ---------------------------------------------------------------------------
\* The reference rule of section 4.5, written from its text: the state is
\* (position p, entry e, realized P&L) and one fill (qty, price, fee) maps it
\* to the next.
Sign(x) == IF x > 0 THEN 1 ELSE IF x < 0 THEN -1 ELSE 0
Min(a, b) == IF a <= b THEN a ELSE b

RefRealized(p0, e, qty, price, fee) ==
    LET closed == Min(Abs(p0), Abs(qty))
        gross == IF Sign(p0) * Sign(qty) < 0
                 THEN IF p0 > 0
                      THEN RMul(RSub(RInt(price), e), RInt(closed))
                      ELSE RMul(RSub(e, RInt(price)), RInt(closed))
                 ELSE RZero
    IN  RSub(gross, RInt(fee))

RefEntry(p0, e, qty, price) ==
    LET p1 == p0 + qty
    IN  IF p1 = 0 THEN RZero
        ELSE IF (Abs(p1) > Abs(p0) /\ Sign(p1) = Sign(p0)) \/ p0 = 0
        THEN RDivInt(RAdd(RMul(RInt(Abs(p0)), e), RInt(Abs(qty) * price)), Abs(p1))
        ELSE IF p0 * p1 < 0 THEN RInt(price)
        ELSE e

RefStep(r, qty, price, fee) ==
    [ pos   |-> r.pos + qty,
      entry |-> RefEntry(r.pos, r.entry, qty, price),
      pnl   |-> RAdd(r.pnl, RefRealized(r.pos, r.entry, qty, price, fee)) ]

\* ---------------------------------------------------------------------------
\* The accounting specification: update_from_trade applied to every sequence
\* of at most MaxFills fills drawn from the sets below, starting flat.  The
\* quantities are whole numbers (-2.0, -1.0, 1.0).
FillQtys == {-2, -1, 1}
FillPrices == {90, 100, 120, 130}
FillFees == {0, 1}

\* The worked example of section 8, scenario 6 (fee 0 throughout).
Scenario == << [qty |-> 1, price |-> 100], [qty |-> 1, price |-> 120],
               [qty |-> -1, price |-> 130], [qty |-> -2, price |-> 90] >>

InitMoney ==
    /\ current_position = 0
    /\ avg_entry_price = RZero
    /\ current_pnl = RZero
    /\ pnl_history = << >>

InitPnlObs ==
    /\ fills_n = 0
    /\ last_realized = RZero
    /\ last_fee = 0
    /\ ref = [pos |-> 0, entry |-> RZero, pnl |-> RZero]
    /\ sum_qty = 0
    /\ scen = 0

\* No round of the SSE stream has begun; the only state to be seen is the one
\* EngineState::new leaves.
InitReader ==
    /\ sse = [pc |-> "pnl", pnl |-> RZero, position |-> 0, avg_entry |-> RZero]
    /\ snapshots = { <<RZero, 0, RZero>> }

\* stress_test main.rs 16, 48: an empty ring buffer, received = 0.
InitStress ==
    /\ sp_q = << >> /\ sp_sent = 0 /\ sp_recv = << >> /\ sp_spun = {}

\* No cancel_all_orders call has been made.
InitCancel == cl_attempt = 0 /\ cl_waits = << >>

\* state.rs 46-72: the counters of the speed meter start at zero.
InitTm == ticks_counter = 0 /\ current_tps = 0

\* feed_handler::connect has not been called.
InitWs ==
    /\ ws_pc = "off" /\ ws_backoff = WS_BACKOFF_MS /\ ws_chan = 0
    /\ ws_fails = 0 /\ ws_delay = 0 /\ ws_linked = FALSE

\* state.rs 57: no tick has been parsed or received.
InitHb == ws_parsed = 0 /\ last_tick_timestamp = 0

\* Nothing has been put on Q2 and no call made.
InitOrd == q2_pushed = 0 /\ q2_popped = 0 /\ submitted = << >>

\* No STOP has been handled.
InitRestart == stop_mark = -1 /\ restarted = FALSE

\* The shutdown flag is not set: the thread has taken no step under it.
InitAfter == st_after = [tests |-> 0, bodies |-> 0, pushes |-> 0]

\* db.rs 72-78: the writer task starts with an empty buffer.
InitDb ==
    /\ db_pc = "recv"
    /\ db_buf = 0 /\ db_rows = 0 /\ db_lost = 0 /\ db_last_flush = 0
    /\ db_at_mark = -1

\* Startup has passed its checks: trading enabled with both keys, the web
\* server listening, no exit.
InitBooted ==
    /\ cfg_enabled = TRUE /\ cfg_keys = TRUE
    /\ srv_pc = "listening" /\ exit_code = -1

\* state.rs 45-70 and the spawns of main.rs 47, 182, 205: every mutex is free
\* and no thread has entered a function that locks one.
Mutexes ==
    {"recent_logs", "current_position", "avg_entry_price", "current_pnl",
     "pnl_history", "max_loss_limit", "target_profit", "initial_balance",
     "available_balance", "last_price", "active_strategy"}
Threads == {"dispatcher", "control", "sse", "strategy"}
InitLocks ==
    /\ mutex_owner = [m \in Mutexes |-> "free"]
    /\ lock_at = [t \in Threads |-> [in |-> "none", ops |-> << >>]]

InitAuxExceptBoot ==
    /\ InitReader /\ InitStress /\ dropped_ticks = 0 /\ appended = 0 /\ InitCancel
    /\ fed = << >> /\ InitDb /\ InitWs /\ InitTm /\ name_changed = FALSE
    /\ InitHb /\ pp_trig = << >> /\ InitAfter /\ InitRestart /\ InitOrd
    /\ InitLocks

InitAux == InitAuxExceptBoot /\ InitBooted

\* One call update_from_trade(qty, price, fee), observed.
ApplyFill(qty, price, fee) ==
    LET u == update_from_trade(current_position, avg_entry_price, current_pnl,
                               pnl_history, qty, price, fee, clock)
    IN  /\ current_position' = u.pos
        /\ avg_entry_price' = u.avg
        /\ current_pnl' = u.pnl
        /\ pnl_history' = u.history
        /\ last_realized' = u.realized
        /\ last_fee' = fee
        /\ fills_n' = fills_n + 1
        /\ ref' = RefStep(ref, qty, price, fee)
        /\ sum_qty' = sum_qty + qty
        /\ scen' = IF /\ scen = fills_n
                      /\ scen < Len(Scenario)
                      /\ fee = 0
                      /\ Scenario[scen + 1] = [qty |-> qty, price |-> price]
                   THEN scen + 1
                   ELSE -1

Fill ==
    /\ fills_n < MaxFills
    /\ \E qty \in FillQtys, price \in FillPrices, fee \in FillFees :
          ApplyFill(qty, price, fee)
    /\ UNCHANGED <<auxVars, limitVars, flagVars, statVars, nameVars, mainVars, sigVars,
                   feedVars, stVars, exVars, clVars, ctlVars, q1, q2,
                   recent_logs, clock>>

InitPnl ==
    /\ InitMoney /\ InitPnlObs /\ InitAux /\ InitEngine /\ InitClient
    /\ sig_pc = << >>
    /\ cfg_dry_run = FALSE /\ main_pc = "off"
NextPnl == Fill
SpecPnl == InitPnl /\ [][NextPnl]_vars

\* ---------------------------------------------------------------------------
\* The process from the construction of EngineState (main.rs 35), with either
\* value of trading.dry_run and n deliveries of SIGINT to come.
InitProcess(n) ==
    /\ InitMoney /\ InitPnlObs /\ InitAux /\ InitEngine /\ InitClient
    /\ sig_pc = [h \in 1..n |-> "idle"]
    /\ cfg_dry_run \in BOOLEAN
    /\ main_pc = "sync"

Startup ==
    \/ MainSyncRequest \/ MainSyncReply \/ MainBalance
    \/ MainInstall \/ MainSpawn

Signals ==
    \/ \E h \in DOMAIN sig_pc : SigDeliver(h)
    \/ \E h \in DOMAIN sig_pc : SigLatch(h)
    \/ \E h \in DOMAIN sig_pc : SigMark(h)
    \/ \E h \in DOMAIN sig_pc : SigStop(h)
    \/ \E h \in DOMAIN sig_pc : SigBroadcast(h)
    \/ \E h \in DOMAIN sig_pc : SigDrain(h)
    \/ \E h \in DOMAIN sig_pc : SigCancel(h)
    \/ \E h \in DOMAIN sig_pc : SigDisarm(h)
    \/ \E h \in DOMAIN sig_pc : SigExit(h)
    \/ MainJoin

Control ==
    \/ CtlControl \/ CtlStartRun \/ CtlStartArm \/ CtlStartLog
    \/ CtlStopRun \/ CtlStopDisarm \/ CtlStopLog \/ CtlFlatten

StrategyChange ==
    CtlStrategy \/ CtlStrategyLock \/ CtlStrategySet \/ CtlStrategyLog

Pipeline ==
    \/ FeedTick \/ FeedStop
    \/ StInit \/ StLoop \/ StRunning \/ StName \/ StPop \/ StPush
    \/ ExPoll \/ ExGate \/ ExRisk \/ ExResult \/ ExLog \/ ExAccount \/ ExInsert
    \/ ExReadPnl \/ ExReadLoss \/ ExReadTarget \/ ExStopLoss \/ ExAutoStop
    \/ ClRateLimit

\* The engine specification: startup, the control commands, the pipeline from
\* the feed to the venue, and the shutdown handler.
Init == InitProcess(NumSignals)
Next == Startup \/ Signals \/ Control \/ Pipeline
Spec == Init /\ [][Next]_vars

\* The shutdown specification: SIGINT delivered several times, overlapping,
\* to an engine whose feed delivers no tick.
InitShutdown == InitProcess(NumSignals + 1)
NextShutdown ==
    \/ Startup \/ Signals \/ Control \/ FeedStop
    \/ StInit \/ StLoop \/ StRunning \/ StName \/ StPop \/ ExPoll
SpecShutdown == InitShutdown /\ [][NextShutdown]_vars

\* The strategy specification: the engine over a span of time, with changes
\* of strategy and no SIGINT.  The feed delivers more ticks than Q1 holds and
\* the control plane receives one request more than in the engine
\* specification.
FeedBurst == FeedReceive(MaxEvents + QCap)
CtlControlMore == ControlRequest(MaxCmds + 1)
CtlStrategyMore == StrategyRequest(MaxCmds + 1)
InitStrategy == InitProcess(0)
NextStrategy ==
    \/ Startup
    \/ CtlControlMore \/ CtlStartRun \/ CtlStartArm \/ CtlStartLog
    \/ CtlStopRun \/ CtlStopDisarm \/ CtlStopLog \/ CtlFlatten
    \/ CtlStrategyMore \/ CtlStrategyLock \/ CtlStrategySet \/ CtlStrategyLog
    \/ FeedBurst
    \/ StInit \/ StLoop \/ StRunning \/ StName \/ StPop \/ StPush
    \/ ExPoll \/ ExGate \/ ExRisk \/ ExResult \/ ExLog \/ ExAccount \/ ExInsert
    \/ ExReadPnl \/ ExReadLoss \/ ExReadTarget \/ ExStopLoss \/ ExAutoStop
    \/ ClRateLimit
    \/ Tick
SpecStrategy == InitStrategy /\ [][NextStrategy]_vars

\* ---------------------------------------------------------------------------
\* The client specification: place_order called on instructions of every
\* shape, dry runs included, against a rate limiter holding any number of
\* tokens.
ClientInstructions ==
    { Instruction(side, [price |-> price, id |-> 0], dry_run) :
          side \in {"Buy", "Sell"}, price \in EventPrices, dry_run \in BOOLEAN }

\* A caller enters place_order (client.rs 62).
ClCall ==
    /\ cl_calls < MaxCalls
    /\ \E instruction \in ClientInstructions : ClBeginPlaceOrder(instruction)
    /\ UNCHANGED <<pnlVars, pnlObs, auxVars, limitVars, flagVars, statVars, nameVars,
                   mainVars, sigVars, feedVars, stVars, exVars, ctlVars, q1, q2,
                   recent_logs, clock>>

\* client.rs 96-128: the venue answers and place_order returns.
ClResponse ==
    /\ cl_pc = "sent"
    /\ \E resp \in VenueResponses : cl_result' = place_order_result(resp)
    /\ cl_pc' = "idle"
    /\ UNCHANGED <<pnlVars, pnlObs, auxVars, limitVars, flagVars, statVars, nameVars,
                   mainVars, sigVars, feedVars, stVars, exVars, tokens,
                   http_count, cl_op, cl_instr, cl_calls, cancel_calls, ctlVars,
                   q1, q2, recent_logs, clock>>

\* client.rs 36-38: the limiter regains a token, up to its burst.
ClRefill ==
    /\ tokens < RATE_BURST
    /\ tokens' = tokens + 1
    /\ UNCHANGED <<pnlVars, pnlObs, auxVars, limitVars, flagVars, statVars, nameVars,
                   mainVars, sigVars, feedVars, stVars, exVars, http_count,
                   cl_pc, cl_op, cl_instr, cl_result, cl_calls, cancel_calls,
                   ctlVars, q1, q2, recent_logs, clock>>

InitClientCalls ==
    /\ InitMoney /\ InitPnlObs /\ InitAux /\ InitEngine
    /\ sig_pc = << >>
    /\ cfg_dry_run = FALSE /\ main_pc = "off"
    /\ tokens \in 0..RATE_BURST /\ http_count = 0
    /\ cl_pc = "idle" /\ cl_op = "none" /\ cl_instr = << >>
    /\ cl_result = <<"None">> /\ cl_calls = 0 /\ cancel_calls = 0
NextClient == ClCall \/ ClRateLimit \/ ClResponse \/ ClRefill
SpecClient == InitClientCalls /\ [][NextClient]_vars

\* ---------------------------------------------------------------------------
\* The reader specification: one round of the SSE stream (server.rs 349-354)
\* while trades are accounted.  The round takes the current_pnl mutex, then
\* the current_position mutex, then the avg_entry_price mutex, releasing each
\* before it takes the next.  update_from_trade (state.rs 82-142) holds the
\* position and entry mutexes from its first line to its last and the pnl
\* mutex for lines 130-132 only, so that a read of the position or the entry
\* falls before or after a whole call, and a read of the pnl before or after
\* its write: the call is one step here.
TradeFill ==
    /\ fills_n < MaxTrades
    /\ \E qty \in FillQtys, price \in FillPrices, fee \in FillFees :
          ApplyFill(qty, price, fee)
    /\ snapshots' =
          snapshots \cup { <<current_pnl', current_position', avg_entry_price'>> }
    /\ UNCHANGED <<sse, auxExceptRd, limitVars, flagVars, statVars, nameVars, mainVars,
                   sigVars, feedVars, stVars, exVars, clVars, ctlVars, q1, q2,
                   recent_logs, clock>>

\* server.rs 349: let pnl = *state.engine.current_pnl.lock();
SseReadPnl ==
    /\ sse.pc = "pnl"
    /\ sse' = [sse EXCEPT !.pnl = current_pnl, !.pc = "position"]
    /\ UNCHANGED <<pnlVars, pnlObs, snapshots, auxExceptRd, limitVars, flagVars, statVars,
                   nameVars, mainVars, sigVars, feedVars, stVars, exVars,
                   clVars, ctlVars, q1, q2, recent_logs, clock>>

\* server.rs 353: let position = *state.engine.current_position.lock();
SseReadPosition ==
    /\ sse.pc = "position"
    /\ sse' = [sse EXCEPT !.position = current_position, !.pc = "avg_entry"]
    /\ UNCHANGED <<pnlVars, pnlObs, snapshots, auxExceptRd, limitVars, flagVars, statVars,
                   nameVars, mainVars, sigVars, feedVars, stVars, exVars,
                   clVars, ctlVars, q1, q2, recent_logs, clock>>

\* server.rs 354: let avg_entry = *state.engine.avg_entry_price.lock();
SseReadAvgEntry ==
    /\ sse.pc = "avg_entry"
    /\ sse' = [sse EXCEPT !.avg_entry = avg_entry_price, !.pc = "yield"]
    /\ UNCHANGED <<pnlVars, pnlObs, snapshots, auxExceptRd, limitVars, flagVars, statVars,
                   nameVars, mainVars, sigVars, feedVars, stVars, exVars,
                   clVars, ctlVars, q1, q2, recent_logs, clock>>

InitReaders ==
    /\ InitMoney /\ InitPnlObs /\ InitAux /\ InitEngine /\ InitClient
    /\ sig_pc = << >>
    /\ cfg_dry_run = FALSE /\ main_pc = "off"
NextReaders == TradeFill \/ SseReadPnl \/ SseReadPosition \/ SseReadAvgEntry
SpecReaders == InitReaders /\ [][NextReaders]_vars

\* ---------------------------------------------------------------------------
\* The stress-test specification: one producer thread and one consumer thread
\* on one ring buffer (tools/stress_test/src/main.rs 29-57).  A push either
\* appends the event or fails with Full and leaves the buffer as it is; a pop
\* either removes the oldest event or fails with Empty.
\* main.rs 33-40: one attempt of the producer; on Full it spins and tries
\* again, on Ok it goes on to the next iteration.
producer_breaks_always(pushed) == TRUE
\* main.rs 35-38: the inner loop is left on Ok only.
producer_breaks(pushed) == pushed

ProducerPush ==
    /\ sp_sent < StressMessages
    /\ LET pushed == Len(sp_q) < StressCapacity
       IN  /\ sp_q' = IF pushed THEN Append(sp_q, sp_sent + 1) ELSE sp_q
           /\ sp_sent' = IF producer_breaks(pushed) THEN sp_sent + 1 ELSE sp_sent
           /\ sp_spun' = IF pushed THEN sp_spun ELSE sp_spun \cup {"Full"}
    /\ UNCHANGED <<pnlVars, pnlObs, auxExceptSpsc, sp_recv, limitVars, flagVars,
                   statVars, nameVars, mainVars, sigVars, feedVars, stVars,
                   exVars, clVars, ctlVars, q1, q2, recent_logs, clock>>

\* main.rs 49-54: one attempt of the consumer; on Empty it spins and tries
\* again, on Ok it counts the event.
ConsumerPop ==
    /\ Len(sp_recv) < StressMessages
    /\ IF sp_q # << >>
       THEN /\ sp_recv' = Append(sp_recv, Head(sp_q))
            /\ sp_q' = Tail(sp_q)
            /\ UNCHANGED sp_spun
       ELSE /\ sp_spun' = sp_spun \cup {"Empty"}
            /\ UNCHANGED <<sp_q, sp_recv>>
    /\ UNCHANGED <<pnlVars, pnlObs, auxExceptSpsc, sp_sent, limitVars, flagVars,
                   statVars, nameVars, mainVars, sigVars, feedVars, stVars,
                   exVars, clVars, ctlVars, q1, q2, recent_logs, clock>>

InitStressTest ==
    /\ InitMoney /\ InitPnlObs /\ InitAux /\ InitEngine /\ InitClient
    /\ sig_pc = << >>
    /\ cfg_dry_run = FALSE /\ main_pc = "off"
NextStressTest == ProducerPush \/ ConsumerPop
SpecStressTest == InitStressTest /\ [][NextStressTest]_vars

\* ---------------------------------------------------------------------------
\* The ring specification: the two calls the dispatcher makes for an order it
\* has placed (main.rs 238-249), add_log and then update_from_trade, made over
\* and over until both rings have overflowed; appended counts the calls.  The
\* n-th log line carries n.  Every fill is of one unit at 100 with a fee of
\* 1, a buy when flat and a sell when long, so every call of
\* update_from_trade realizes -1 and books a point; the clock reads n at the
\* n-th of them, so the n-th point is (n, -n).
LogsAppended == (appended + 1) \div 2
PointsAppended == appended \div 2
LogLine(n) == <<"line", n>>
PnlPoint(n) == <<n, RInt(-n)>>
RingFill(pos) ==
    [ qty |-> IF pos = 0 THEN 1 ELSE -1, price |-> 100, fee |-> 1 ]

\* state.rs 74-80, from main.rs 238: add_log takes recent_logs, appends and
\* releases it.
AppendLog ==
    /\ appended < 2 * (PNL_HISTORY_CAP + MaxOverflow)
    /\ appended % 2 = 0
    /\ appended' = appended + 1
    /\ recent_logs' = add_log(recent_logs, LogLine(LogsAppended + 1))
    /\ UNCHANGED <<pnlVars, pnlObs, auxExceptRing, limitVars, flagVars,
                   statVars, nameVars, mainVars, sigVars, feedVars, stVars,
                   exVars, clVars, ctlVars, q1, q2, clock>>

\* state.rs 82-142, from main.rs 249: update_from_trade moves the position
\* and the entry price, adds the realized P&L to current_pnl and pushes the
\* point.
AppendPoint ==
    /\ appended % 2 = 1
    /\ appended' = appended + 1
    /\ LET f == RingFill(current_position)
           u == update_from_trade(current_position, avg_entry_price,
                                  current_pnl, pnl_history, f.qty, f.price,
                                  f.fee, PointsAppended + 1)
       IN  /\ current_position' = u.pos
           /\ avg_entry_price' = u.avg
           /\ current_pnl' = u.pnl
           /\ pnl_history' = u.history
    /\ UNCHANGED <<pnlObs, auxExceptRing, limitVars, flagVars, statVars,
                   nameVars, mainVars, sigVars, feedVars, stVars, exVars,
                   clVars, ctlVars, q1, q2, recent_logs, clock>>

\* What n appends leave in each ring.
KeptLogs(n) ==
    [k \in 1..Min(n, RECENT_LOGS_CAP) |-> LogLine(n - Min(n, RECENT_LOGS_CAP) + k)]
KeptPnl(n) ==
    [k \in 1..Min(n, PNL_HISTORY_CAP) |-> PnlPoint(n - Min(n, PNL_HISTORY_CAP) + k)]

\* The rings start empty.  The state the calls reach just before
\* pnl_history is full is a second start, which keeps the runs that overflow
\* it short; it is one of the states the empty start leads to.
RingStarts == {0, 2 * (PNL_HISTORY_CAP - MaxOverflow)}
InitRings ==
    /\ appended \in RingStarts
    /\ recent_logs = KeptLogs(LogsAppended)
    /\ pnl_history = KeptPnl(PointsAppended)
    /\ current_position = PointsAppended % 2
    /\ avg_entry_price = IF PointsAppended % 2 = 1 THEN RInt(100) ELSE RZero
    /\ current_pnl = RInt(-PointsAppended)
    /\ InitPnlObs /\ InitReader /\ InitStress /\ dropped_ticks = 0 /\ InitCancel
    /\ InitBooted /\ fed = << >> /\ InitDb /\ InitWs /\ InitTm /\ InitHb
    /\ pp_trig = << >> /\ InitAfter /\ InitRestart /\ InitOrd /\ InitLocks
    /\ name_changed = FALSE
    /\ InitEngineCore /\ InitClient
    /\ sig_pc = << >>
    /\ cfg_dry_run = FALSE /\ main_pc = "off"
NextRings == AppendLog \/ AppendPoint
SpecRings == InitRings /\ [][NextRings]_vars

\* ---------------------------------------------------------------------------
\* The dispatch specification: the execution task fed with instructions of
\* every shape the strategies build, while the operator starts or stops the
\* engine.  The limits are those a POST /api/config (server.rs 210-225) has
\* stored before the first instruction arrives.
\* strategy lib.rs 105-113: the strategy thread pushes the instruction it
\* built from the tick it popped; which instruction is left open here.  The
\* push depends on nothing but the thread being alive: an iteration begun
\* before the shutdown flag was stored still pushes after the execution task
\* has ended.
EmitInstruction ==
    /\ Running /\ feed_n < MaxTrades
    /\ feed_n' = feed_n + 1
    /\ \E side \in {"Buy", "Sell"}, price \in EventPrices, dry_run \in BOOLEAN :
          LET instruction ==
                  Instruction(side, [price |-> price, id |-> feed_n + 1], dry_run)
          IN  q2' = IF Len(q2) < QCap THEN Append(q2, instruction) ELSE q2
    /\ UNCHANGED <<pnlVars, pnlObs, auxVars, limitVars, flagVars, statVars,
                   nameVars, mainVars, sigVars, feed_pc, feed_sub, stVars,
                   exVars, clVars, ctlVars, q1, recent_logs, clock>>

ConfigRequests ==
    { [max_loss |-> l, target_profit |-> t] : l \in {1001, 2002}, t \in {0, 1001} }

\* The engine once main has spawned its tasks, before any tick or request;
\* the kill switch, the limits, the position and the dispatcher are left to
\* the specification.
InitSpawned ==
    /\ shutting_down = FALSE
    /\ trade_count = 0 /\ last_order_rtt_ns = 0 /\ db_chan = 0
    /\ recent_logs = << >>
    /\ active_strategy = "PING_PONG" /\ name_lock = "free"
    /\ handler_set = TRUE /\ main_pc = "join"
    /\ q1 = << >> /\ q2 = << >>
    /\ shutdown = FALSE /\ cleanup_done = FALSE
    /\ exec_rx = FALSE /\ feed_sub = TRUE /\ feed_rx = FALSE
    /\ exited = FALSE /\ sig_pc = << >>
    /\ cfg_dry_run = FALSE
    /\ feed_pc = "run" /\ feed_n = 0
    /\ st_pc = "loop" /\ st_name = "PING_PONG"
    /\ st_obj = create_strategy("PING_PONG", FALSE, 0) /\ st_out = << >>
    /\ ex_start = 0 /\ ex_read = NoRead
    /\ ctl_pc = "idle" /\ ctl_cmd = NoRequest /\ ctl_resp = 0 /\ ctl_n = 0
    /\ clock = 0

InitDispatch ==
    /\ InitMoney /\ InitPnlObs /\ InitAux /\ InitClient /\ InitSpawned
    /\ is_running = FALSE /\ trading_enabled = FALSE
    /\ \E r \in ConfigRequests :
          max_loss_limit = r.max_loss /\ target_profit = r.target_profit
    /\ ex_pc = "poll" /\ ex_instr = << >>
NextDispatch ==
    \/ Control
    \/ EmitInstruction
    \/ ExPoll \/ ExGate \/ ExRisk \/ ExResult \/ ExLog \/ ExAccount \/ ExInsert
    \/ ExReadPnl \/ ExReadLoss \/ ExReadTarget \/ ExStopLoss \/ ExAutoStop
    \/ ClRateLimit
SpecDispatch == InitDispatch /\ [][NextDispatch]_vars

\* ---------------------------------------------------------------------------
\* The risk specification: the dispatcher, past its gate, hands one
\* instruction to Risk.check.  The instruction has any side, a price and a
\* quantity below, at or above zero, either value of dry_run; the kill switch
\* is armed or not; the engine is flat or holds max_position lots.
\* main.rs 81: the order-size cap main reads from the configuration, in lots.
max_order_size == 2
RiskPrices == {-1, 0, 50001}
RiskQuantities == {-1, 0, 1, 3}
RiskCheckInputs ==
    { [ Instruction(side, [price |-> price, id |-> 1], dry_run)
            EXCEPT !.quantity = quantity ] :
          side \in {"Buy", "Sell"}, price \in RiskPrices,
          quantity \in RiskQuantities, dry_run \in BOOLEAN }

InitRisk ==
    /\ InitPnlObs /\ InitAux /\ InitClient /\ InitSpawned
    /\ current_position \in {0, Config.max_position}
    /\ avg_entry_price = IF current_position = 0 THEN RZero ELSE RInt(50001)
    /\ current_pnl = RZero /\ pnl_history = << >>
    /\ is_running = TRUE /\ trading_enabled \in BOOLEAN
    /\ max_loss_limit = Config.max_drawdown /\ target_profit = 0
    /\ ex_pc = "risk"
    /\ ex_instr \in { <<i>> : i \in RiskCheckInputs }
NextRisk == ExRisk
SpecRisk == InitRisk /\ [][NextRisk]_vars

\* ---------------------------------------------------------------------------
\* The cancel specification: cancel_all_orders (client.rs 181-249) called
\* against a venue that answers each request in any way, and a rate limiter
\* holding any number of tokens.
\* What a DELETE may come to: a 2xx, a 400 whose body names "No open order"
\* or -2011, any other 400, any other status, or no response (transport
\* error or the 5 s timeout).
CancelResponses == {"2xx", "400 no open order", "400", "5xx", "error"}

\* client.rs 216-223: the responses on which the call returns Ok.
cancel_succeeded(resp) == resp \in {"2xx", "400 no open order"}

\* client.rs 241: the sleep after a failed attempt.
backoff_ms(attempt) == CANCEL_BACKOFF_MS * 2 ^ (attempt - 1)

\* client.rs 181-186: the call is entered; the first attempt waits for the
\* rate limiter.
ClCancelCall ==
    /\ cl_pc = "idle" /\ cancel_calls < MaxCalls
    /\ cancel_calls' = cancel_calls + 1
    /\ cl_op' = "cancel_all_orders"
    /\ cl_attempt' = 1 /\ cl_waits' = << >>
    /\ cl_result' = <<"Pending">>
    /\ cl_pc' = "limit"
    /\ UNCHANGED <<pnlVars, pnlObs, auxExceptCancel, limitVars, flagVars,
                   statVars, nameVars, mainVars, sigVars, feedVars, stVars,
                   exVars, tokens, http_count, cl_instr, cl_calls, ctlVars, q1,
                   q2, recent_logs, clock>>

\* client.rs 214-237, 245-248: the request has come to resp.  A success
\* returns Ok; a failure before the last attempt goes on to the sleep; a
\* failure of the last attempt leaves the loop and returns the error.
ClCancelResponse ==
    /\ cl_pc = "sent" /\ cl_op = "cancel_all_orders"
    /\ \E resp \in CancelResponses :
          IF cancel_succeeded(resp)
          THEN cl_result' = <<"Ok", "()">> /\ cl_pc' = "idle"
          ELSE IF cl_attempt < CANCEL_MAX_RETRIES
          THEN cl_result' = <<"Pending">> /\ cl_pc' = "sleep"
          ELSE /\ cl_result' = <<"Err", "ExchangeError", "Failed to cancel orders">>
               /\ cl_pc' = "idle"
    /\ UNCHANGED <<pnlVars, pnlObs, auxVars, limitVars, flagVars, statVars,
                   nameVars, mainVars, sigVars, feedVars, stVars, exVars,
                   tokens, http_count, cl_op, cl_instr, cl_calls, cancel_calls,
                   ctlVars, q1, q2, recent_logs, clock>>

\* client.rs 239-242, 185-186: the backoff sleep, then the next attempt.
ClCancelSleep ==
    /\ cl_pc = "sleep"
    /\ cl_waits' = Append(cl_waits, backoff_ms(cl_attempt))
    /\ cl_attempt' = cl_attempt + 1
    /\ cl_pc' = "limit"
    /\ UNCHANGED <<pnlVars, pnlObs, auxExceptCancel, limitVars, flagVars,
                   statVars, nameVars, mainVars, sigVars, feedVars, stVars,
                   exVars, tokens, http_count, cl_op, cl_instr, cl_result,
                   cl_calls, cancel_calls, ctlVars, q1, q2, recent_logs, clock>>

NextCancel ==
    ClCancelCall \/ ClRateLimit \/ ClCancelResponse \/ ClCancelSleep \/ ClRefill
SpecCancel == InitClientCalls /\ [][NextCancel]_vars

\* ---------------------------------------------------------------------------
\* The startup specification: main from the opening of the database
\* (main.rs 41) to the spawning of the tasks, with trading enabled or not,
\* the keys present or not, and a venue that answers the position sync in
\* any way.
\* db.rs 32-110: TradeStorage::new connects and creates the table, or fails.
OpenResults == {"Ok", "Err"}

\* main.rs 41: main awaits TradeStorage::new; on Err the `?` returns the
\* error from main and the process ends with status 1.
BootOpenDb ==
    /\ Running /\ main_pc = "db"
    /\ \E res \in OpenResults :
          IF res = "Ok"
          THEN /\ main_pc' = "server"
               /\ UNCHANGED <<exited, exit_code>>
          ELSE /\ exited' = TRUE /\ exit_code' = 1
               /\ UNCHANGED main_pc
    /\ UNCHANGED <<pnlVars, pnlObs, auxExceptBoot, cfg_enabled, cfg_keys, srv_pc,
                   limitVars, flagVars, statVars, nameVars, handler_set, sig_pc,
                   cleanup_done, shutdown, exec_rx, feed_rx, feedVars, stVars,
                   exVars, clVars, ctlVars, q1, q2, recent_logs, clock>>

\* main.rs 45-62: the web server task and the speed meter task are spawned.
BootSpawnServer ==
    /\ Running /\ main_pc = "server"
    /\ srv_pc' = "spawned"
    /\ main_pc' = "keys"
    /\ UNCHANGED <<pnlVars, pnlObs, auxExceptBoot, cfg_enabled, cfg_keys,
                   exit_code, limitVars, flagVars, statVars, nameVars,
                   handler_set, sigVars, feedVars, stVars, exVars, clVars,
                   ctlVars, q1, q2, recent_logs, clock>>

\* server.rs 129-135: the server task binds 0.0.0.0:3000 and serves.
SrvBind ==
    /\ Running /\ srv_pc = "spawned"
    /\ srv_pc' = "listening"
    /\ UNCHANGED <<pnlVars, pnlObs, auxExceptBoot, cfg_enabled, cfg_keys,
                   exit_code, limitVars, flagVars, statVars, nameVars, mainVars,
                   sigVars, feedVars, stVars, exVars, clVars, ctlVars, q1, q2,
                   recent_logs, clock>>

\* main.rs 65-77: with trading enabled and a key missing the process exits
\* with code 1; otherwise the execution client is built.
BootKeys ==
    /\ Running /\ main_pc = "keys"
    /\ IF cfg_enabled /\ ~cfg_keys
       THEN /\ exited' = TRUE /\ exit_code' = 1
            /\ UNCHANGED main_pc
       ELSE /\ main_pc' = "sync"
            /\ UNCHANGED <<exited, exit_code>>
    /\ UNCHANGED <<pnlVars, pnlObs, auxExceptBoot, cfg_enabled, cfg_keys, srv_pc,
                   limitVars, flagVars, statVars, nameVars, handler_set, sig_pc,
                   cleanup_done, shutdown, exec_rx, feed_rx, feedVars, stVars,
                   exVars, clVars, ctlVars, q1, q2, recent_logs, clock>>

InitStartup ==
    /\ InitMoney /\ InitPnlObs /\ InitAuxExceptBoot /\ InitEngine /\ InitClient
    /\ cfg_enabled \in BOOLEAN /\ cfg_keys \in BOOLEAN
    /\ srv_pc = "off" /\ exit_code = -1
    /\ sig_pc = << >>
    /\ cfg_dry_run \in BOOLEAN
    /\ main_pc = "db"
NextStartup ==
    \/ BootOpenDb \/ BootSpawnServer \/ SrvBind \/ BootKeys
    \/ MainSyncRequest \/ MainSyncReply \/ MainBalance
    \/ MainInstall \/ MainSpawn
SpecStartup == InitStartup /\ [][NextStartup]_vars

\* ---------------------------------------------------------------------------
\* The ping-pong specification: the strategy thread runs the ping-pong
\* strategy with is_running true between a driver that pushes events onto Q1
\* and the dispatcher that pops Q2.  The kill switch is off, so the dispatcher
\* rejects what it pops and logs it.
\* Q1 and Q2 (4096 slots each in main.rs 122-124) hold PpQCap entries here, one
\* more than in the other specifications, so that each can hold two at a time;
\* the driver pushes one event more than Q2 holds, and the clock runs until
\* the throttle has passed that many times.
PpQCap == QCap + 1
PpEvents == PpQCap + 1
PpTicks == 2 * PpQCap

\* tests/e2e_flow.rs 41-61: the driver pushes an event onto Q1 and expects
\* the push to succeed.
InjectEvent ==
    /\ Running /\ feed_n < PpEvents /\ Len(q1) < PpQCap
    /\ \E price \in EventPrices :
          /\ q1' = Append(q1, [price |-> price, quantity |-> 1, id |-> feed_n + 1])
          /\ fed' = Append(fed, price)
    /\ feed_n' = feed_n + 1
    /\ UNCHANGED <<pnlVars, pnlObs, auxExceptInj, limitVars, flagVars, statVars,
                   nameVars, mainVars, sigVars, feed_pc, feed_sub, stVars, exVars,
                   clVars, ctlVars, q2, recent_logs, clock>>

InitPingPong ==
    /\ InitMoney /\ InitPnlObs /\ InitAux /\ InitClient /\ InitSpawned
    /\ is_running = TRUE /\ trading_enabled = FALSE
    /\ max_loss_limit = Config.max_drawdown /\ target_profit = 0
    /\ ex_pc = "poll" /\ ex_instr = << >>
TickLong == TickUntil(PpTicks * TickSeconds)
StPushWide == StPushOnto(PpQCap) /\ UNCHANGED auxVars
NextPingPong ==
    \/ InjectEvent \/ TickLong
    \/ StLoop \/ StRunning \/ StName \/ StPop \/ StPushWide
    \/ ExPoll \/ ExGate \/ ExRisk
SpecPingPong == InitPingPong /\ [][NextPingPong]_vars

\* ---------------------------------------------------------------------------
\* The persistence specification: a running, armed engine places orders and
\* hands a record of each to insert_trade, the writer task of TradeStorage
\* takes the records from its channel, and SIGINT arrives at any moment.
\* db.rs 112-143: flush_buffer commits the whole buffer or fails.
FlushResults == {"Ok", "Err"}

\* db.rs 81-88: the writer receives one record and pushes it onto its
\* buffer; a flush is due if the buffer holds DB_BATCH records or 100 ms
\* have passed since the last one.  Within one reading of the clock less or
\* more than 100 ms may have passed.
DbWriterRecv ==
    /\ Running /\ db_pc = "recv" /\ InChannel > 0
    /\ db_buf' = db_buf + 1
    /\ \E should_flush \in IF db_buf + 1 >= DB_BATCH \/ clock > db_last_flush
                             THEN {TRUE} ELSE BOOLEAN :
          db_pc' = IF should_flush THEN "flush" ELSE "recv"
    /\ UNCHANGED <<pnlVars, pnlObs, auxExceptDb, db_rows, db_lost,
                   db_last_flush, db_at_mark, limitVars, flagVars, statVars,
                   nameVars, mainVars, sigVars, feedVars, stVars, exVars,
                   clVars, ctlVars, q1, q2, recent_logs, clock>>

\* db.rs 89, 112-143: flush_buffer, awaited by the writer, commits the
\* records of the buffer in one transaction or fails and commits none.
DbCommit ==
    /\ Running /\ db_pc = "flush"
    /\ \E res \in FlushResults :
          IF res = "Ok"
          THEN db_rows' = db_rows + db_buf /\ UNCHANGED db_lost
          ELSE db_lost' = db_lost + db_buf /\ UNCHANGED db_rows
    /\ db_pc' = "clear"
    /\ UNCHANGED <<pnlVars, pnlObs, auxExceptDb, db_buf, db_last_flush,
                   db_at_mark, limitVars, flagVars, statVars, nameVars,
                   mainVars, sigVars, feedVars, stVars, exVars, clVars, ctlVars,
                   q1, q2, recent_logs, clock>>

\* db.rs 90-93: the writer resumes, clears the buffer whether the commit
\* succeeded or not, and takes the time.
DbWriterClear ==
    /\ Running /\ db_pc = "clear"
    /\ db_buf' = 0
    /\ db_last_flush' = clock
    /\ db_pc' = "recv"
    /\ UNCHANGED <<pnlVars, pnlObs, auxExceptDb, db_rows, db_lost, db_at_mark,
                   limitVars, flagVars, statVars, nameVars, mainVars, sigVars,
                   feedVars, stVars, exVars, clVars, ctlVars, q1, q2,
                   recent_logs, clock>>

InitPersist ==
    /\ InitMoney /\ InitPnlObs /\ InitAux /\ InitClient
    /\ is_running = TRUE /\ shutting_down = FALSE /\ trading_enabled = TRUE
    /\ trade_count = 0 /\ last_order_rtt_ns = 0 /\ db_chan = 0
    /\ max_loss_limit = Config.max_drawdown /\ target_profit = 0
    /\ recent_logs = << >>
    /\ active_strategy = "PING_PONG" /\ name_lock = "free"
    /\ handler_set = TRUE /\ main_pc = "join"
    /\ q1 = << >> /\ q2 = << >>
    /\ shutdown = FALSE /\ cleanup_done = FALSE
    /\ exec_rx = FALSE /\ feed_sub = TRUE /\ feed_rx = FALSE
    /\ exited = FALSE /\ sig_pc = [h \in 1..NumSignals |-> "idle"]
    /\ cfg_dry_run = FALSE
    /\ feed_pc = "run" /\ feed_n = 0
    /\ st_pc = "loop" /\ st_name = "PING_PONG"
    /\ st_obj = create_strategy("PING_PONG", FALSE, 0) /\ st_out = << >>
    /\ ex_pc = "poll" /\ ex_instr = << >> /\ ex_start = 0 /\ ex_read = NoRead
    /\ ctl_pc = "idle" /\ ctl_cmd = NoRequest /\ ctl_resp = 0 /\ ctl_n = 0
    /\ clock = 0
SigHandler ==
    \/ \E h \in DOMAIN sig_pc : SigDeliver(h)
    \/ \E h \in DOMAIN sig_pc : SigLatch(h)
    \/ \E h \in DOMAIN sig_pc : SigMark(h)
    \/ \E h \in DOMAIN sig_pc : SigStop(h)
    \/ \E h \in DOMAIN sig_pc : SigBroadcast(h)
    \/ \E h \in DOMAIN sig_pc : SigDrain(h)
    \/ \E h \in DOMAIN sig_pc : SigCancel(h)
    \/ \E h \in DOMAIN sig_pc : SigDisarm(h)
    \/ \E h \in DOMAIN sig_pc : SigExit(h)
NextPersist ==
    \/ SigHandler
    \/ EmitInstruction \/ Tick
    \/ ExPoll \/ ExGate \/ ExRisk \/ ExResult \/ ExLog \/ ExAccount \/ ExInsert
    \/ ExReadPnl \/ ExReadLoss \/ ExReadTarget \/ ExStopLoss \/ ExAutoStop
    \/ ClRateLimit
    \/ DbWriterRecv \/ DbCommit \/ DbWriterClear
SpecPersist == InitPersist /\ [][NextPersist]_vars

\* ---------------------------------------------------------------------------
\* The feed specification: the feed task, the reconnect loop it spawns
\* through feed_handler::connect, and the shutdown handler.
\* Failed attempts in a row, and sleeps, the model follows.
MaxFails == 8

\* main.rs 306, feed_handler/lib.rs 11-23, 73: the feed task calls connect,
\* which spawns the reconnect loop and returns the receiver.
FeedConnect ==
    /\ Running /\ feed_pc = "run" /\ ws_pc = "off"
    /\ ws_pc' = "connect"
    /\ ws_backoff' = WS_BACKOFF_MS
    /\ UNCHANGED <<pnlVars, pnlObs, auxExceptWs, ws_chan, ws_fails, ws_delay,
                   ws_linked, limitVars, flagVars, statVars, nameVars, mainVars,
                   sigVars, feedVars, stVars, exVars, clVars, ctlVars, q1, q2,
                   recent_logs, clock>>

\* main.rs 321-330: the feed task receives an event from the channel and
\* pushes it onto Q1.
FeedFromWs ==
    /\ ws_pc # "off" /\ ws_chan > 0
    /\ FeedPush(MaxTrades)
    /\ ws_chan' = ws_chan - 1
    /\ UNCHANGED <<ws_pc, ws_backoff, ws_fails, ws_delay, ws_linked>>

\* main.rs 318-320: the feed task, past connect, receives the broadcast and
\* leaves its loop.
FeedLeave == ws_pc # "off" /\ FeedStop

ConnectResults == {"Ok", "Err"}

next_backoff_uncapped(backoff) == backoff * 2
\* lib.rs 69: std::cmp::min(backoff * 2, max_backoff).
next_backoff(backoff) ==
    IF backoff * 2 < WS_MAX_BACKOFF_MS THEN backoff * 2 ELSE WS_MAX_BACKOFF_MS

\* lib.rs 26-31, 63-65: one connection attempt.  On Ok the backoff is reset.
WsConnect ==
    /\ Running /\ ws_pc = "connect"
    /\ \E res \in ConnectResults :
          IF res = "Ok"
          THEN /\ ws_backoff' = WS_BACKOFF_MS
               /\ ws_pc' = "read"
               /\ ws_fails' = 0
               /\ ws_linked' = TRUE
          ELSE /\ ws_fails < MaxFails
               /\ ws_fails' = ws_fails + 1
               /\ ws_pc' = "sleep"
               /\ UNCHANGED <<ws_backoff, ws_linked>>
    /\ UNCHANGED <<pnlVars, pnlObs, auxExceptWs, ws_chan, ws_delay, limitVars,
                   flagVars, statVars, nameVars, mainVars, sigVars, feedVars,
                   stVars, exVars, clVars, ctlVars, q1, q2, recent_logs, clock>>

\* What read.next() yields: a text frame, a ping or pong, a close frame, an
\* error, or the end of the stream.
WsMessages == {"Text", "Ping", "Close", "Err", "End"}
ParseResults == {"Ok", "Err"}

\* lib.rs 12, 40: try_send onto the channel to the feed task; it fails, and
\* the event is gone, when the channel is full or when the feed task has
\* ended and dropped the receiver.
ws_try_send(in_channel, receiver_dropped) ==
    IF ~receiver_dropped /\ in_channel < WS_CHANNEL_CAP
    THEN in_channel + 1 ELSE in_channel

\* lib.rs 35-61: one message of the connection.  A text frame that parses
\* is handed to try_send; a close, an error or the end of the stream leaves
\* the read loop.
WsRead ==
    /\ Running /\ ws_pc = "read"
    /\ \E msg \in WsMessages, res \in ParseResults :
          /\ msg = "Text" => ws_chan < MaxTrades
          /\ ws_chan' = IF msg = "Text" /\ res = "Ok"
                        THEN ws_try_send(ws_chan, feed_pc = "done")
                        ELSE ws_chan
          /\ ws_pc' = IF msg \in {"Close", "Err", "End"} THEN "sleep" ELSE "read"
    /\ UNCHANGED <<pnlVars, pnlObs, auxExceptWs, ws_backoff, ws_fails, ws_delay,
                   ws_linked, limitVars, flagVars, statVars, nameVars, mainVars,
                   sigVars, feedVars, stVars, exVars, clVars, ctlVars, q1, q2,
                   recent_logs, clock>>

\* lib.rs 68-69: the loop sleeps for the backoff, doubles it up to the
\* maximum and goes back to connecting.
WsSleep ==
    /\ Running /\ ws_pc = "sleep"
    /\ ws_delay' = ws_backoff
    /\ ws_backoff' = next_backoff(ws_backoff)
    /\ ws_pc' = "connect"
    /\ UNCHANGED <<pnlVars, pnlObs, auxExceptWs, ws_chan, ws_fails, ws_linked,
                   limitVars, flagVars, statVars, nameVars, mainVars, sigVars,
                   feedVars, stVars, exVars, clVars, ctlVars, q1, q2,
                   recent_logs, clock>>

NextFeed ==
    \/ SigHandler
    \/ FeedConnect \/ FeedFromWs \/ FeedLeave
    \/ WsConnect \/ WsRead \/ WsSleep
SpecFeed == InitPersist /\ [][NextFeed]_vars

\* ---------------------------------------------------------------------------
\* The writers specification: every task that runs beside the dispatcher once
\* main has spawned it: the control plane with its commands, the
\* configuration update, the change of strategy and the clearing of the
\* trade history, the feed task, the
\* strategy thread and the speed meter.
\* server.rs 210-214: POST /api/config stores max_loss_limit under its
\* lock.
CtlConfig ==
    /\ Running /\ ctl_pc = "idle" /\ ctl_n < MaxCmds
    /\ ctl_n' = ctl_n + 1
    /\ \E r \in ConfigRequests :
          /\ ctl_cmd' = [route |-> "config", max_loss |-> r.max_loss,
                         target_profit |-> r.target_profit]
          /\ max_loss_limit' = r.max_loss
    /\ ctl_resp' = 0 /\ ctl_pc' = "cfg_target"
    /\ UNCHANGED <<pnlVars, pnlObs, auxVars, cfg_dry_run, target_profit,
                   flagVars, statVars, nameVars, mainVars, sigVars, feedVars,
                   stVars, exVars, clVars, q1, q2, recent_logs, clock>>

\* server.rs 215: it stores target_profit under its lock.
CtlConfigTarget ==
    /\ Running /\ ctl_pc = "cfg_target"
    /\ target_profit' = ctl_cmd.target_profit
    /\ ctl_pc' = "cfg_log"
    /\ UNCHANGED <<pnlVars, pnlObs, auxVars, cfg_dry_run, max_loss_limit,
                   flagVars, statVars, nameVars, mainVars, sigVars, feedVars,
                   stVars, exVars, clVars, ctl_cmd, ctl_resp, ctl_n, q1, q2,
                   recent_logs, clock>>

\* server.rs 216-224: the log line, 200.
CtlConfigLog ==
    /\ Running /\ ctl_pc = "cfg_log"
    /\ recent_logs' = add_log(recent_logs,
           <<"Config Updated", ctl_cmd.max_loss, ctl_cmd.target_profit>>)
    /\ ctl_resp' = 200 /\ ctl_pc' = "idle" /\ ctl_cmd' = NoRequest
    /\ UNCHANGED <<pnlVars, pnlObs, auxVars, limitVars, flagVars, statVars,
                   nameVars, mainVars, sigVars, feedVars, stVars, exVars,
                   clVars, ctl_n, q1, q2, clock>>

\* server.rs 275: what db.clear_trades may return (db.rs does not define
\* it).
ClearResults == {"Ok", "Err"}

\* server.rs 274-275, 287-293: DELETE /api/history awaits clear_trades; an
\* error answers 500.
CtlClearHistory ==
    /\ Running /\ ctl_pc = "idle" /\ ctl_n < MaxCmds
    /\ ctl_n' = ctl_n + 1
    /\ \E res \in ClearResults :
          IF res = "Ok"
          THEN /\ ctl_cmd' = [route |-> "history"]
               /\ ctl_resp' = 0 /\ ctl_pc' = "clear_log"
          ELSE /\ ctl_cmd' = NoRequest
               /\ ctl_resp' = 500 /\ ctl_pc' = "idle"
    /\ UNCHANGED <<pnlVars, pnlObs, auxVars, limitVars, flagVars, statVars,
                   nameVars, mainVars, sigVars, feedVars, stVars, exVars,
                   clVars, q1, q2, recent_logs, clock>>

\* server.rs 276-286: the log line, 200.
CtlClearLog ==
    /\ Running /\ ctl_pc = "clear_log"
    /\ recent_logs' = add_log(recent_logs, <<"Trade history cleared by user">>)
    /\ ctl_resp' = 200 /\ ctl_pc' = "idle" /\ ctl_cmd' = NoRequest
    /\ UNCHANGED <<pnlVars, pnlObs, auxVars, limitVars, flagVars, statVars,
                   nameVars, mainVars, sigVars, feedVars, stVars, exVars,
                   clVars, ctl_n, q1, q2, clock>>

\* main.rs 53-62: once a second the speed meter takes the tick count and
\* resets it.
Sampler ==
    /\ Running
    /\ current_tps' = ticks_counter
    /\ ticks_counter' = 0
    /\ UNCHANGED <<pnlVars, pnlObs, auxExceptTm, limitVars, flagVars, statVars,
                   nameVars, mainVars, sigVars, feedVars, stVars, exVars, clVars,
                   ctlVars, q1, q2, recent_logs, clock>>

\* Time passes while the dispatcher waits for the venue.
TickInCall == ex_pc = "wait" /\ Tick

InitWriters ==
    /\ InitMoney /\ InitPnlObs /\ InitAux /\ InitClient /\ InitSpawned
    /\ is_running \in BOOLEAN /\ trading_enabled = is_running
    /\ max_loss_limit = Config.max_drawdown /\ target_profit = 0
    /\ ex_pc = "poll" /\ ex_instr = << >>
NextWriters ==
    \/ Control \/ StrategyChange
    \/ CtlConfig \/ CtlConfigTarget \/ CtlConfigLog
    \/ CtlClearHistory \/ CtlClearLog
    \/ FeedTick \/ Sampler \/ TickInCall
    \/ StLoop \/ StRunning \/ StName \/ StPop \/ StPush
    \/ ExPoll \/ ExGate \/ ExRisk \/ ExResult \/ ExLog \/ ExAccount \/ ExInsert
    \/ ExReadPnl \/ ExReadLoss \/ ExReadTarget \/ ExStopLoss \/ ExAutoStop
    \/ ClRateLimit
SpecWriters == InitWriters /\ [][NextWriters]_vars

\* ---------------------------------------------------------------------------
\* The switch specification: the strategy thread of a running engine takes
\* events while POST /api/strategy changes the name and GET /api/status reads
\* it, both under the name lock.
\* server.rs 55: get_status locks active_strategy to clone it.
StatusLock ==
    /\ Running /\ name_lock = "free"
    /\ name_lock' = "status"
    /\ UNCHANGED <<pnlVars, pnlObs, auxVars, limitVars, flagVars, statVars,
                   active_strategy, mainVars, sigVars, feedVars, stVars, exVars,
                   clVars, ctlVars, q1, q2, recent_logs, clock>>

\* server.rs 55: the guard is dropped at the end of the statement.
StatusUnlock ==
    /\ Running /\ name_lock = "status"
    /\ name_lock' = "free"
    /\ UNCHANGED <<pnlVars, pnlObs, auxVars, limitVars, flagVars, statVars,
                   active_strategy, mainVars, sigVars, feedVars, stVars, exVars,
                   clVars, ctlVars, q1, q2, recent_logs, clock>>

\* server.rs 242: the store, observed: the name takes another value.
CtlStrategySetSeen ==
    /\ StrategyStore
    /\ name_changed' = (name_changed \/ ctl_cmd.strategy # active_strategy)
    /\ UNCHANGED auxExceptName

\* lib.rs 87-101: the comparison, observed: a strategy built in it is the
\* object in use from then on.
StNameSeen ==
    /\ StCompareName
    /\ name_changed' = IF st_name' # st_name THEN FALSE ELSE name_changed
    /\ UNCHANGED auxExceptName

InitSwitch ==
    /\ InitMoney /\ InitPnlObs /\ InitAux /\ InitClient /\ InitSpawned
    /\ is_running = TRUE /\ trading_enabled = TRUE
    /\ max_loss_limit = Config.max_drawdown /\ target_profit = 0
    /\ ex_pc = "poll" /\ ex_instr = << >>
NextSwitch ==
    \/ FeedBurst
    \/ CtlStrategyMore \/ CtlStrategyLock \/ CtlStrategySetSeen \/ CtlStrategyLog
    \/ StatusLock \/ StatusUnlock
    \/ StLoop \/ StRunning \/ StNameSeen \/ StPop \/ StPush
SpecSwitch == InitSwitch /\ [][NextSwitch]_vars

\* ---------------------------------------------------------------------------
\* The heartbeat specification: a connection of the reconnect loop parses
\* trades and sends them down the channel, and the feed task receives them,
\* updates the heartbeat and the tick counter and pushes them onto Q1.  The
\* channel starts empty or one short of full, as it is once the feed task has
\* not run for WS_CHANNEL_CAP - 1 trades.
ChannelStarts == {0, WS_CHANNEL_CAP - 1}

\* feed_handler/lib.rs 37-48: a text frame is parsed; an event is handed to
\* try_send, which fails on a full channel, and the event is gone.
WsParse ==
    /\ Running /\ ws_pc = "read" /\ ws_parsed < WS_CHANNEL_CAP - 1 + MaxTrades
    /\ \E res \in ParseResults :
          IF res = "Ok"
          THEN /\ ws_parsed' = ws_parsed + 1
               /\ ws_chan' = ws_try_send(ws_chan, feed_pc = "done")
          ELSE UNCHANGED <<ws_parsed, ws_chan>>
    /\ UNCHANGED <<pnlVars, pnlObs, auxExceptTicks, tmVars, last_tick_timestamp,
                   ws_pc, ws_backoff, ws_fails, ws_delay, ws_linked, limitVars,
                   flagVars, statVars, nameVars, mainVars, sigVars, feedVars,
                   stVars, exVars, clVars, ctlVars, q1, q2, recent_logs, clock>>

InitTicks ==
    /\ InitMoney /\ InitPnlObs /\ InitClient /\ InitSpawned
    /\ InitReader /\ InitStress /\ dropped_ticks = 0 /\ appended = 0 /\ InitCancel
    /\ InitBooted /\ fed = << >> /\ InitDb /\ InitTm /\ name_changed = FALSE
    /\ ws_pc = "read" /\ ws_backoff = WS_BACKOFF_MS /\ ws_linked = TRUE
    /\ ws_fails = 0 /\ ws_delay = 0
    /\ ws_chan \in ChannelStarts
    /\ ws_parsed = ws_chan /\ last_tick_timestamp = 0 /\ pp_trig = << >>
    /\ InitAfter /\ InitRestart /\ InitOrd /\ InitLocks
    /\ is_running = FALSE /\ trading_enabled = FALSE
    /\ max_loss_limit = Config.max_drawdown /\ target_profit = 0
    /\ ex_pc = "poll" /\ ex_instr = << >>
NextTicks == WsParse \/ FeedFromWs
SpecTicks == InitTicks /\ [][NextTicks]_vars

\* ---------------------------------------------------------------------------
\* The throttle specification: a ping-pong strategy, built at time 0 with its
\* throttle on, is handed events one after another while time passes.
\* ping_pong.rs 19-52: one call of process_event; the answer to a triggering
\* event is recorded.
PpEvent ==
    /\ Len(pp_trig) < MaxTriggers
    /\ \E price \in EventPrices :
          LET event == [price |-> price, quantity |-> 1, id |-> Len(pp_trig) + 1]
              r == pp_process_event(st_obj, event, FALSE, clock)
          IN  /\ st_obj' = r.obj
              /\ pp_trig' =
                    IF price > PP_TRIGGER_PRICE
                    THEN Append(pp_trig,
                                [at |-> clock,
                                 out |-> IF r.out = << >> THEN "None"
                                         ELSE r.out[1].side])
                    ELSE pp_trig
    /\ UNCHANGED <<pnlVars, pnlObs, auxExceptPp, limitVars, flagVars, statVars,
                   nameVars, mainVars, sigVars, feedVars, st_pc, st_name, st_out,
                   exVars, clVars, ctlVars, q1, q2, recent_logs, clock>>

\* Time passes between two events.
PpClock ==
    /\ clock < MaxPpSteps * PpStepSeconds
    /\ clock' = clock + PpStepSeconds
    /\ UNCHANGED <<pnlVars, pnlObs, auxVars, limitVars, flagVars, statVars, nameVars,
                   mainVars, sigVars, feedVars, stVars, exVars, clVars, ctlVars,
                   q1, q2, recent_logs>>

NextThrottle == PpEvent \/ PpClock
SpecThrottle == InitPingPong /\ [][NextThrottle]_vars

\* ---------------------------------------------------------------------------
\* The drain specification: the strategy thread of a running engine between
\* the feed and Q2, which nothing empties, while SIGINT arrives.  The loop
\* flag can be set between any two steps of an iteration.
\* lib.rs 79: the test, counted if the flag is set.
StTest ==
    /\ StTestFlag
    /\ st_after' = IF shutdown THEN [st_after EXCEPT !.tests = @ + 1] ELSE st_after
    /\ UNCHANGED auxExceptAfter

\* lib.rs 81-84: the load of is_running; a body it ends is counted if the
\* flag is set.
StRunningCounted ==
    /\ StLoadRunning
    /\ st_after' = IF shutdown /\ st_pc' = "loop"
                   THEN [st_after EXCEPT !.bodies = @ + 1] ELSE st_after
    /\ UNCHANGED auxExceptAfter

\* lib.rs 103-109: the pop ends the body, counted if the flag is set.
StPopCounted ==
    /\ StTakeEvent
    /\ st_after' = IF shutdown THEN [st_after EXCEPT !.bodies = @ + 1] ELSE st_after
    /\ UNCHANGED auxExceptAfter

\* lib.rs 110-112: the push, counted if the flag is set.
StPushCounted ==
    /\ StPushInstruction
    /\ st_after' = IF shutdown THEN [st_after EXCEPT !.pushes = @ + 1] ELSE st_after
    /\ UNCHANGED auxExceptAfter

NextDrain ==
    \/ SigHandler
    \/ FeedBurst \/ Tick
    \/ StTest \/ StRunningCounted \/ StName \/ StPopCounted \/ StPushCounted
SpecDrain == InitPersist /\ [][NextDrain]_vars

\* ---------------------------------------------------------------------------
\* The restart specification: a running, armed engine with its whole pipeline
\* at work receives STOP and then START.
\* server.rs 164: the store of STOP, observed: the ticks received so far are
\* those that entered the pipeline before the STOP.
CtlStopSeen ==
    /\ StopStore
    /\ stop_mark' = feed_n
    /\ restarted' = FALSE
    /\ UNCHANGED auxExceptRestart

\* server.rs 154: the store of START, observed.
CtlStartSeen ==
    /\ StartStore
    /\ restarted' = (stop_mark >= 0)
    /\ UNCHANGED <<auxExceptRestart, stop_mark>>

NextRestart ==
    \/ CtlControlMore \/ CtlStartSeen \/ CtlStartArm \/ CtlStartLog
    \/ CtlStopSeen \/ CtlStopDisarm \/ CtlStopLog \/ CtlFlatten
    \/ FeedBurst
    \/ StLoop \/ StRunning \/ StName \/ StPop \/ StPush
    \/ ExPoll \/ ExGate \/ ExRisk \/ ExResult \/ ExLog \/ ExAccount \/ ExInsert
    \/ ExReadPnl \/ ExReadLoss \/ ExReadTarget \/ ExStopLoss \/ ExAutoStop
    \/ ClRateLimit
SpecRestart == InitSwitch /\ [][NextRestart]_vars

\* ---------------------------------------------------------------------------
\* The orders specification: a running, armed engine with its whole pipeline
\* at work over a span of time, one control command arriving, with what goes
\* onto Q2, what comes off it and what place_order is called for observed.
\* lib.rs 110-112: the push, observed.
StPushSeen ==
    /\ StPushInstruction
    /\ q2_pushed' = IF q2' # q2 THEN q2_pushed + 1 ELSE q2_pushed
    /\ UNCHANGED <<auxExceptOrd, q2_popped, submitted>>

\* main.rs 208-213: the pop, observed.
ExPollSeen ==
    /\ ExPop
    /\ q2_popped' = IF ex_pc' = "gate" THEN q2_popped + 1 ELSE q2_popped
    /\ UNCHANGED <<auxExceptOrd, q2_pushed, submitted>>

\* main.rs 222-231: the check and the call, observed.
ExRiskSeen ==
    /\ ExCheck
    /\ submitted' = IF cl_calls' # cl_calls
                     THEN Append(submitted, cl_instr'[1].src) ELSE submitted
    /\ UNCHANGED <<auxExceptOrd, q2_pushed, q2_popped>>

\* main.rs 321-330: the feed delivers as many ticks as the dispatch
\* specification hands instructions to the dispatcher.
FeedTrades == FeedReceive(MaxTrades)

NextOrders ==
    \/ Control
    \/ FeedTrades \/ Tick
    \/ StLoop \/ StRunning \/ StName \/ StPop \/ StPushSeen
    \/ ExPollSeen \/ ExGate \/ ExRiskSeen \/ ExResult \/ ExLog \/ ExAccount \/ ExInsert
    \/ ExReadPnl \/ ExReadLoss \/ ExReadTarget \/ ExStopLoss \/ ExAutoStop
    \/ ClRateLimit
SpecOrders == InitSwitch /\ [][NextOrders]_vars

\* ---------------------------------------------------------------------------
\* The momentum specification: a running, armed engine whose strategy thread
\* was started with MOMENTUM as the active strategy (POST /api/strategy was
\* answered before main spawned the thread), flat, with its whole pipeline at
\* work over a span of time and a venue that answers in any way.
InitMomentum ==
    /\ InitMoney /\ InitPnlObs /\ InitAux /\ InitClient
    /\ is_running = TRUE /\ shutting_down = FALSE /\ trading_enabled = TRUE
    /\ trade_count = 0 /\ last_order_rtt_ns = 0 /\ db_chan = 0
    /\ max_loss_limit = Config.max_drawdown /\ target_profit = 0
    /\ recent_logs = << >>
    /\ active_strategy = "MOMENTUM" /\ name_lock = "free"
    /\ handler_set = TRUE /\ main_pc = "join"
    /\ q1 = << >> /\ q2 = << >>
    /\ shutdown = FALSE /\ cleanup_done = FALSE
    /\ exec_rx = FALSE /\ feed_sub = TRUE /\ feed_rx = FALSE
    /\ exited = FALSE /\ sig_pc = << >>
    /\ cfg_dry_run = FALSE
    /\ feed_pc = "run" /\ feed_n = 0
    /\ st_pc = "loop" /\ st_name = "MOMENTUM"
    /\ st_obj = create_strategy("MOMENTUM", FALSE, 0) /\ st_out = << >>
    /\ ex_pc = "poll" /\ ex_instr = << >> /\ ex_start = 0 /\ ex_read = NoRead
    /\ ctl_pc = "idle" /\ ctl_cmd = NoRequest /\ ctl_resp = 0 /\ ctl_n = 0
    /\ clock = 0
NextMomentum ==
    \/ Control
    \/ FeedBurst \/ Tick
    \/ StLoop \/ StRunning \/ StName \/ StPop \/ StPush
    \/ ExPoll \/ ExGate \/ ExRisk \/ ExResult \/ ExLog \/ ExAccount \/ ExInsert
    \/ ExReadPnl \/ ExReadLoss \/ ExReadTarget \/ ExStopLoss \/ ExAutoStop
    \/ ClRateLimit
SpecMomentum == InitMomentum /\ [][NextMomentum]_vars

\* ---------------------------------------------------------------------------
\* The lock specification: the dispatcher, a control-plane handler, the SSE
\* stream and the strategy thread each run the functions that lock the
\* EngineState mutexes, one lock operation at a time, in any interleaving.
\* A parking_lot guard made inside one statement is released at its end.
Once(m) == << <<"lock", m>>, <<"unlock", m>> >>

\* state.rs 74-80: add_log holds recent_logs for the push.
add_log_locks == Once("recent_logs")

\* state.rs 82-142: update_from_trade takes current_position, then
\* avg_entry_price, and, when the profit changed, current_pnl and then
\* pnl_history inside them; the guards are dropped in the reverse order.
update_from_trade_locks(pnl_changed) ==
    << <<"lock", "current_position">>, <<"lock", "avg_entry_price">> >>
    \o (IF pnl_changed
        THEN << <<"lock", "current_pnl">>, <<"lock", "pnl_history">>,
                <<"unlock", "pnl_history">>, <<"unlock", "current_pnl">> >>
        ELSE << >>)
    \o << <<"unlock", "avg_entry_price">>, <<"unlock", "current_position">> >>

\* main.rs 270-273: the auto-stop evaluation reads three values in turn.
auto_stop_locks ==
    Once("current_pnl") \o Once("max_loss_limit") \o Once("target_profit")

\* main.rs 234-288: one answered order; a failed one only logs.
dispatcher_locks ==
    {add_log_locks \o update_from_trade_locks(c) \o auto_stop_locks :
        c \in BOOLEAN}
    \cup {add_log_locks}

\* server.rs 43-57: get_status.
get_status_locks ==
    Once("current_pnl") \o Once("max_loss_limit") \o Once("target_profit")
    \o Once("initial_balance") \o Once("available_balance")
    \o Once("current_position") \o Once("active_strategy")

\* server.rs 210-220: update_config.
update_config_locks ==
    Once("max_loss_limit") \o Once("target_profit") \o add_log_locks

\* server.rs 227-251: set_strategy, refused with an open position.
set_strategy_locks(open_position) ==
    Once("current_position")
    \o (IF open_position THEN << >>
        ELSE Once("active_strategy") \o add_log_locks)

\* server.rs 331 and 335-338: the history and log downloads.
get_history_locks == Once("pnl_history")
get_logs_locks == Once("recent_logs")

control_locks ==
    {get_status_locks, update_config_locks, get_history_locks, get_logs_locks}
    \cup {set_strategy_locks(o) : o \in BOOLEAN}

\* server.rs 349-356: one update of the SSE stream.
sse_stream_locks_nested ==
    << <<"lock", "current_pnl">>, <<"lock", "current_position">>,
       <<"unlock", "current_position">>, <<"unlock", "current_pnl">> >>
    \o Once("avg_entry_price") \o Once("last_price")
    \o Once("available_balance")
sse_stream_locks ==
    Once("current_pnl") \o Once("current_position")
    \o Once("avg_entry_price") \o Once("last_price")
    \o Once("available_balance")

\* strategy/lib.rs 67: the thread's first read of the active name waits for
\* the mutex; lib.rs 87-101: the check in the loop only tries it.
strategy_init_locks == Once("active_strategy")
strategy_check_locks ==
    << <<"try", "active_strategy">>, <<"unlock", "active_strategy">> >>

\* The functions thread t may enter next, with their lock operations.
Entries(t) ==
    IF t = "dispatcher"
    THEN {[in |-> "dispatch", ops |-> p] : p \in dispatcher_locks}
    ELSE IF t = "control"
    THEN {[in |-> "handler", ops |-> p] : p \in control_locks}
    ELSE IF t = "sse"
    THEN {[in |-> "stream", ops |-> sse_stream_locks]}
    ELSE IF lock_at[t].in = "none"
    THEN {[in |-> "init", ops |-> strategy_init_locks]}
    ELSE {[in |-> "check", ops |-> strategy_check_locks]}

NextOp(t) == Head(lock_at[t].ops)
AtOp(t, kind) == lock_at[t].ops # << >> /\ NextOp(t)[1] = kind

LockRest ==
    UNCHANGED <<pnlVars, pnlObs, auxExceptLock, limitVars, flagVars, statVars,
                nameVars, mainVars, sigVars, feedVars, stVars, exVars, clVars,
                ctlVars, q1, q2, recent_logs, clock>>

\* A thread enters a function that locks.
LockEnter(t) ==
    /\ lock_at[t].ops = << >>
    /\ \E e \in Entries(t) : lock_at' = [lock_at EXCEPT ![t] = e]
    /\ UNCHANGED mutex_owner
    /\ LockRest

\* Mutex::lock: granted only while the mutex is free; the thread waits
\* otherwise.
MutexLock(t) ==
    /\ AtOp(t, "lock")
    /\ mutex_owner[NextOp(t)[2]] = "free"
    /\ mutex_owner' = [mutex_owner EXCEPT ![NextOp(t)[2]] = t]
    /\ lock_at' = [lock_at EXCEPT ![t].ops = Tail(@)]
    /\ LockRest

\* Mutex::try_lock: takes a free mutex; returns None at once otherwise, and
\* the guarded block is skipped.
MutexTryLock(t) ==
    /\ AtOp(t, "try")
    /\ IF mutex_owner[NextOp(t)[2]] = "free"
       THEN /\ mutex_owner' = [mutex_owner EXCEPT ![NextOp(t)[2]] = t]
            /\ lock_at' = [lock_at EXCEPT ![t].ops = Tail(@)]
       ELSE /\ lock_at' = [lock_at EXCEPT ![t].ops = << >>]
            /\ UNCHANGED mutex_owner
    /\ LockRest

\* The guard is dropped.
MutexUnlock(t) ==
    /\ AtOp(t, "unlock")
    /\ mutex_owner[NextOp(t)[2]] = t
    /\ mutex_owner' = [mutex_owner EXCEPT ![NextOp(t)[2]] = "free"]
    /\ lock_at' = [lock_at EXCEPT ![t].ops = Tail(@)]
    /\ LockRest

LockEnters == \E t \in Threads : LockEnter(t)
MutexLocks == \E t \in Threads : MutexLock(t)
MutexTryLocks == \E t \in Threads : MutexTryLock(t)
MutexUnlocks == \E t \in Threads : MutexUnlock(t)
NextLocks == LockEnters \/ MutexLocks \/ MutexTryLocks \/ MutexUnlocks
SpecLocks == InitSwitch /\ [][NextLocks]_vars
\* A running thread goes on to its next lock operation, and parking_lot hands
\* a contended mutex over fairly in the end, so a waiting thread is not passed
\* over for ever.
LockStep(t) == MutexLock(t) \/ MutexTryLock(t) \/ MutexUnlock(t)
LockFairness == \A t \in Threads : SF_vars(LockStep(t))
SpecLocksFair == SpecLocks /\ LockFairness

\* ===========================================================================
\* Claims
\* ===========================================================================
\* Every shape of instruction the risk check may be handed.
RiskInputs ==
    { [i EXCEPT !.quantity = q] : i \in ClientInstructions, q \in {0, 1} }

\* C1: whenever Risk.check runs on a dequeued instruction while
\* trading_enabled is false, it rejects with "System Disarmed" (for a dry run
\* as for a live instruction), the rejection is logged, the instruction is
\* dropped, and no place_order call and no HTTP request is made for it.
C1_KillSwitch ==
    [][ /\ \A i \in RiskInputs : check(FALSE, i) = "System Disarmed"
        /\ (ex_pc = "risk" /\ ex_pc' # "risk" /\ ~trading_enabled)
              => /\ ex_pc' = "poll"
                 /\ ex_instr' = << >>
                 /\ recent_logs' = add_log(recent_logs,
                                           <<"Risk Reject", "System Disarmed">>)
                 /\ cl_calls' = cl_calls
                 /\ http_count' = http_count
                 /\ cl_pc' = cl_pc /\ tokens' = tokens ]_vars

\* C1 witness: the dispatcher has just dropped an instruction on a
\* "System Disarmed" rejection and place_order was never called.
C1_Witness ==
    /\ recent_logs # << >>
    /\ recent_logs[Len(recent_logs)] = <<"Risk Reject", "System Disarmed">>
    /\ ex_pc = "poll" /\ ex_instr = << >>
    /\ is_running /\ ~trading_enabled
    /\ cl_calls = 0 /\ cl_pc = "idle"

\* C2: with trading.dry_run = true every instruction produced by the strategy
\* and every instruction on Q2 carries dry_run = true, and no order request
\* is sent to the venue: place_order never gets to its request.
C2_DryRunConfig ==
    cfg_dry_run =>
        /\ \A k \in 1..Len(q2) : q2[k].dry_run
        /\ \A k \in 1..Len(st_out) : st_out[k].dry_run
        /\ ~(cl_op = "place_order" /\ cl_pc \in {"limit", "sent"})

\* C3: a call of place_order on a dry-run instruction returns
\* Ok("DRY_RUN_SUCCESS") at once; it sends no HTTP request, takes no token
\* and leaves the client as it was.
C3_DryRunIsolation ==
    [][ (cl_calls' = cl_calls + 1 /\ cl_instr'[1].dry_run)
          => /\ cl_result' = <<"Ok", "DRY_RUN_SUCCESS">>
             /\ cl_pc' = "idle"
             /\ tokens' = tokens
             /\ http_count' = http_count ]_vars

\* C3 witness: a dry-run call has returned DRY_RUN_SUCCESS against an empty
\* token bucket, with no request ever sent.
C3_Witness ==
    /\ cl_calls >= 1
    /\ cl_instr # << >> /\ cl_instr[1].dry_run
    /\ cl_result = <<"Ok", "DRY_RUN_SUCCESS">>
    /\ tokens = 0 /\ http_count = 0

\* C4: the strategy thread lengthens Q2 only in a state where is_running is
\* true, and the dispatcher's check of is_running, made while it is false,
\* discards the instruction: no risk check, no place_order call, nothing put
\* back on Q2.
C4_StoppedMeansStopped ==
    [][ /\ (st_pc = "push" /\ st_pc' # "push" /\ q2' # q2) => is_running
        /\ (ex_pc = "gate" /\ ex_pc' # "gate" /\ ~is_running)
              => /\ ex_pc' = "poll" /\ ex_instr' = << >>
                 /\ q2' = q2
                 /\ cl_calls' = cl_calls
                 /\ recent_logs' = recent_logs ]_vars

\* C5: shutting_down never goes from true to false, and a control command
\* received while it is true is answered 503 at once and changes neither
\* is_running nor trading_enabled.
C5_ShuttingDownRefuses ==
    [][ /\ shutting_down => shutting_down'
        /\ (shutting_down /\ ctl_n' = ctl_n + 1)
              => /\ ctl_resp' = 503
                 /\ ctl_pc' = "idle"
                 /\ is_running' = is_running
                 /\ trading_enabled' = trading_enabled ]_vars

\* C5 witness: a command was answered 503 during shutdown.
C5_Witness ==
    /\ shutting_down
    /\ ctl_n >= 1 /\ ctl_pc = "idle" /\ ctl_resp = 503

\* The positions of a handler invocation inside the shutdown sequence body.
BodyPcs == {"mark", "stop", "bcast", "drain", "cancel", "disarm", "flush", "exit"}
InBody == { h \in DOMAIN sig_pc : sig_pc[h] \in BodyPcs }
Returned == { h \in DOMAIN sig_pc : sig_pc[h] = "returned" }

\* C6: of all handler invocations, overlapping or not, exactly one passes
\* the latch and runs the shutdown sequence body; every other one returns at
\* the latch, and its return changes nothing of the engine's state.
C6_LatchOnce ==
    /\ [](Cardinality(InBody) <= 1)
    /\ [](Returned # {} => Cardinality(InBody) = 1)
    /\ [][ \A h \in DOMAIN sig_pc :
              (sig_pc[h] = "latch" /\ sig_pc'[h] # "latch")
                 => \/ /\ sig_pc'[h] = "mark"
                       /\ InBody = {} /\ Returned = {}
                    \/ /\ sig_pc'[h] = "returned"
                       /\ UNCHANGED <<pnlVars, limitVars, flagVars, statVars,
                                      nameVars, mainVars, cleanup_done, shutdown,
                                      exec_rx, feed_rx, exited, feedVars, stVars,
                                      exVars, clVars, ctlVars, q1, q2,
                                      recent_logs>> ]_vars

\* C6 witness: an invocation has returned at the latch while the one that
\* passed it is part-way through the body.
C6_Witness ==
    /\ Cardinality(Returned) >= 1
    /\ Cardinality(InBody) = 1
    /\ \E h \in InBody : sig_pc[h] \in {"drain", "cancel", "disarm"}

\* C7: cancel_all_orders is never called twice, and once the handler,
\* invoked twice or more, has taken the process to its exit, it has been
\* called exactly once.
C7_OneCancel ==
    /\ cancel_calls <= 1
    /\ (exited /\ Cardinality(InBody \cup Returned) >= 2) => cancel_calls = 1

\* C8: avg_entry_price is zero exactly when current_position is zero, and is
\* never negative.
C8_EntryZeroIffFlat ==
    /\ (avg_entry_price = RZero) <=> (current_position = 0)
    /\ avg_entry_price[1] >= 0

\* C9: after every sequence of fills the position, the average entry price and
\* the realized P&L kept by update_from_trade equal those of the reference
\* rule of section 4.5, and the position is the running sum of the signed
\* quantities.
C9_MatchesReference ==
    /\ current_position = ref.pos
    /\ current_position = sum_qty
    /\ avg_entry_price = ref.entry
    /\ current_pnl = ref.pnl

\* C9 witness: after a same-sign increase drew a non-integral average entry
\* price, a reducing fill realized a non-integral P&L and left a position open.
C9_Witness ==
    /\ fills_n >= 3
    /\ current_position # 0
    /\ last_realized[2] # 1
    /\ avg_entry_price[2] # 1

\* C10 (original): the worked example ends with position -1, entry 90 and a
\* total P&L of 40.
C10_Original ==
    /\ scen = 1 => /\ current_position = 1 /\ avg_entry_price = RInt(100)
                   /\ current_pnl = RZero
    /\ scen = 2 => /\ current_position = 2 /\ avg_entry_price = RInt(110)
                   /\ current_pnl = RZero
    /\ scen = 3 => /\ current_position = 1 /\ avg_entry_price = RInt(110)
                   /\ current_pnl = RInt(20)
    /\ scen = 4 => /\ current_position = -1 /\ avg_entry_price = RInt(90)
                   /\ current_pnl = RInt(40)

\* C10 (amended): the worked example passes through (1, 100, 0), (2, 110, 0),
\* (1, 110, 20) and ends with position -1, entry 90 and a total P&L of 0: the
\* last fill closes one long lot bought at 110 for 90, a loss of 20.
C10_Amended ==
    /\ scen = 1 => /\ current_position = 1 /\ avg_entry_price = RInt(100)
                   /\ current_pnl = RZero
    /\ scen = 2 => /\ current_position = 2 /\ avg_entry_price = RInt(110)
                   /\ current_pnl = RZero
    /\ scen = 3 => /\ current_position = 1 /\ avg_entry_price = RInt(110)
                   /\ current_pnl = RInt(20)
    /\ scen = 4 => /\ current_position = -1 /\ avg_entry_price = RInt(90)
                   /\ current_pnl = RZero /\ last_realized = RInt(-20)

\* C10 witness: the four fills of the worked example have been applied.
C10_Witness == scen = 4 /\ fills_n = 4

\* C11: a round of the SSE stream that runs while update_from_trade is
\* called reports a current_pnl, a current_position and an avg_entry_price
\* that all belong to one completed update: the three values it has read are
\* the three values the state held after some one call (or before the first).
C11_ConsistentTriple ==
    sse.pc = "yield" => <<sse.pnl, sse.position, sse.avg_entry>> \in snapshots

\* C12: with one producer that retries each push until it succeeds and one
\* consumer that retries each pop until it succeeds, in every interleaving
\* the events received followed by the events still queued are exactly the
\* events pushed, in the order pushed (nothing lost, nothing twice), the
\* buffer never holds more than its capacity, a thread that has not finished
\* is never stuck for good, and a consumer that has counted every message has
\* received the whole sequence.
Pushed == [k \in 1..sp_sent |-> k]
C12_ExactSequence ==
    /\ Len(sp_q) <= StressCapacity
    /\ sp_recv \o sp_q = Pushed
    /\ Len(sp_recv) < StressMessages
          => (sp_q # << >> \/ (sp_sent < StressMessages /\ Len(sp_q) < StressCapacity))
    /\ Len(sp_recv) = StressMessages
          => (sp_recv = [k \in 1..StressMessages |-> k] /\ sp_q = << >>)
\* The consumer has received every message, after the producer found the
\* buffer full and the consumer found it empty along the way.
C12_Witness ==
    /\ Len(sp_recv) = StressMessages
    /\ sp_sent = StressMessages
    /\ sp_spun = {"Full", "Empty"}

\* C13: a tick that arrives while Q1 is full is dropped: the push fails and
\* leaves Q1 as it is, the dropped-ticks counter goes up by one, and the feed
\* task stays in its loop; an instruction pushed while Q2 is full is dropped
\* and the strategy thread goes back to the head of its loop; neither queue
\* ever holds more than its capacity.
C13_LoadShedding ==
    [][ /\ (feed_n' = feed_n + 1 /\ Len(q1) >= QCap)
              => /\ q1' = q1
                 /\ dropped_ticks' = dropped_ticks + 1
                 /\ feed_pc' = "run"
        /\ (st_pc = "push" /\ st_pc' # "push" /\ Len(q2) >= QCap)
              => (q2' = q2 /\ st_pc' = "loop")
        /\ Len(q1') <= QCap /\ Len(q2') <= QCap ]_vars

\* C14: after n appends pnl_history holds exactly the min(n, 5000) most
\* recent points, oldest first, and after n appends recent_logs holds exactly
\* the min(n, 200) most recent lines, oldest first; so neither exceeds its
\* capacity and an append to a full ring evicts the oldest entry and nothing
\* else.
C14_BoundedRings ==
    /\ recent_logs = KeptLogs(LogsAppended)
    /\ pnl_history = KeptPnl(PointsAppended)
    /\ Len(recent_logs) <= RECENT_LOGS_CAP
    /\ Len(pnl_history) <= PNL_HISTORY_CAP
\* Both rings are full and have evicted: more than 5000 entries were appended
\* to each, and the log ring is one append ahead of the series.
C14_Witness ==
    /\ PointsAppended > PNL_HISTORY_CAP
    /\ LogsAppended = PointsAppended + 1
    /\ Len(pnl_history) = PNL_HISTORY_CAP
    /\ Len(recent_logs) = RECENT_LOGS_CAP
    /\ Head(pnl_history) = PnlPoint(PointsAppended - PNL_HISTORY_CAP + 1)
    /\ Head(recent_logs) = LogLine(LogsAppended - RECENT_LOGS_CAP + 1)
    /\ current_pnl = RInt(-PointsAppended)

\* C15: trade_count goes up by exactly one in a step in which place_order
\* returns Ok to the dispatcher and is left alone by every other step (an
\* instruction discarded at the gate, rejected by the risk check, or whose
\* place_order returns an error); so it always equals the number of
\* successful place_order calls, which is the number of "Order Placed"
\* lines logged and one more while the dispatcher has counted an order and
\* is about to log it.
OrdersPlaced ==
    Cardinality({k \in DOMAIN recent_logs : recent_logs[k][1] = "Order Placed"})
C15_TradeCount ==
    /\ [](trade_count = OrdersPlaced + (IF ex_pc = "log" THEN 1 ELSE 0))
    /\ [][ LET returned == ex_pc = "wait" /\ ex_pc' # "wait"
               succeeded == returned /\ cl_result'[1] = "Ok"
           IN  trade_count' = IF succeeded THEN trade_count + 1 ELSE trade_count ]_vars
\* Two place_order calls were made and both have returned, one of them with
\* an error: one order is counted.
C15_Witness ==
    /\ trade_count = 1
    /\ cl_calls = 2
    /\ OrdersPlaced = 1
    /\ ex_pc = "poll"

\* The positions of the dispatcher on its successful-order path, in order.
SuccessPath ==
    <<"wait", "log", "account", "insert", "autostop", "read_loss",
      "read_target", "stop_loss", "stop_target">>

\* The dispatcher enters the path behind "wait" with an Ok and with nothing
\* else, and moves along it one position at a time.
OnSuccessPath ==
    /\ (ex_pc = "wait" /\ ex_pc' # "wait")
          => (ex_pc' = "log" <=> cl_result'[1] = "Ok")
    /\ \A k \in 2..Len(SuccessPath) :
          (ex_pc' = SuccessPath[k] /\ ex_pc # SuccessPath[k])
             => ex_pc = SuccessPath[k - 1]
    /\ \A k \in 2..(Len(SuccessPath) - 1) :
          (ex_pc = SuccessPath[k] /\ ex_pc' # SuccessPath[k])
             => ex_pc' = SuccessPath[k + 1]

\* C16: when the dispatcher has accounted a successful order it clears
\* is_running if current_pnl <= -max_loss_limit, or if target_profit > 0 and
\* current_pnl >= target_profit; if neither holds it leaves is_running as it
\* is, and with target_profit = 0 no profit, however large, stops the engine.
\* The two tests are made on the values the state holds, one after the
\* other, and they follow every successful order and nothing else.
C16_AutoStop ==
    [][ LET loss_test == ex_pc = "stop_loss" /\ ex_pc' # "stop_loss"
            target_test == ex_pc = "stop_target" /\ ex_pc' # "stop_target"
            loss_hit == ~RLt(RInt(-max_loss_limit), current_pnl)
            profit_hit == target_profit > 0 /\ ~RLt(current_pnl, RInt(target_profit))
        IN  /\ (loss_test \/ target_test)
                  => ex_read = [pnl |-> current_pnl, max_loss |-> max_loss_limit,
                                target |-> target_profit]
            /\ loss_test => is_running' = (is_running /\ ~loss_hit)
            /\ target_test => is_running' = (is_running /\ ~profit_hit)
            /\ (target_test /\ target_profit = 0) => is_running' = is_running
            /\ target_test => ex_pc' = "poll"
            /\ OnSuccessPath ]_vars
\* The second order has brought the P&L up to the profit target and the
\* engine, started and armed by START, has been stopped.
C16_Witness ==
    /\ ~is_running /\ trading_enabled
    /\ ctl_n = MaxCmds /\ ctl_pc = "idle"
    /\ trade_count = 2 /\ ex_pc = "poll"
    /\ target_profit > 0
    /\ RLe(RInt(target_profit), current_pnl)
    /\ RLt(RInt(-max_loss_limit), current_pnl)

\* C17: Risk.check decides in this order.  Disarmed, it rejects every
\* instruction, a dry run included, with "System Disarmed".  Armed, it
\* accepts every dry run whatever its quantity and price; of the others it
\* rejects a quantity <= 0 with "Zero/Negative Quantity", whatever the
\* price, and then a price <= 0 with "Invalid Price".  A rejection is logged
\* and the instruction dropped; an accepted instruction goes to place_order.
C17_CheckOrder ==
    [][ (ex_pc = "risk" /\ ex_pc' # "risk") =>
          LET i == ex_instr[1]
              rejected(e) ==
                  /\ ex_pc' = "poll" /\ ex_instr' = << >>
                  /\ recent_logs' = Append(recent_logs, <<"Risk Reject", e>>)
                  /\ cl_calls' = cl_calls
              accepted ==
                  ex_pc' = "wait" /\ cl_calls' = cl_calls + 1 /\ cl_instr' = <<i>>
          IN  /\ ~trading_enabled => rejected("System Disarmed")
              /\ (trading_enabled /\ i.dry_run) => accepted
              /\ (trading_enabled /\ ~i.dry_run /\ i.quantity <= 0)
                    => rejected("Zero/Negative Quantity")
              /\ (trading_enabled /\ ~i.dry_run /\ i.quantity > 0 /\ i.price <= 0)
                    => rejected("Invalid Price") ]_vars
\* An armed check has accepted a dry run whose quantity and price are both
\* zero or less.
C17_Witness ==
    /\ ex_pc = "wait" /\ trading_enabled
    /\ ex_instr # << >>
    /\ ex_instr[1].dry_run
    /\ ex_instr[1].quantity <= 0 /\ ex_instr[1].price <= 0

\* C18: armed and handed an instruction that is not a dry run, Risk.check
\* rejects a quantity above max_order_size and an order that would take the
\* magnitude of the position above max_position.
C18_Caps ==
    [][ (ex_pc = "risk" /\ ex_pc' # "risk") =>
          LET i == ex_instr[1]
              signed_qty == IF i.side = "Buy" THEN i.quantity ELSE -i.quantity
          IN  ( /\ trading_enabled /\ ~i.dry_run
                /\ \/ i.quantity > max_order_size
                   \/ Abs(current_position + signed_qty) > Config.max_position )
                => ex_pc' = "poll" ]_vars

\* C19: active_strategy changes only while the engine is flat.  A strategy
\* request handled while the position is not zero is answered 409 and leaves
\* the name as it is; a request goes on to the write only from a flat
\* position; and at the step that overwrites active_strategy
\* current_position is zero, whatever the dispatcher has filled meanwhile.
C19_ChangeOnlyFlat ==
    [][ /\ (ctl_pc = "idle" /\ ctl_pc' = "strat_lock") => current_position = 0
        /\ (ctl_pc = "idle" /\ ctl_n' # ctl_n /\ ctl_resp' = 409)
              => (current_position # 0 /\ active_strategy' = active_strategy)
        /\ (ctl_pc = "strat_set" /\ ctl_pc' # "strat_set")
              => current_position = 0 ]_vars

\* C20: cancel_all_orders retries a failed cancel up to 3 times, waiting
\* 100, 200 and 400 ms before the first, second and third retry; it returns
\* Ok at the first 2xx or 400 "No open order"/-2011 without a further
\* request, and an error only when the first attempt and all three retries
\* have failed.
BackoffSchedule == <<100, 200, 400>>
C20_CancelRetries ==
    (cl_op = "cancel_all_orders") =>
        /\ Len(cl_waits) <= Len(BackoffSchedule)
        /\ cl_waits = SubSeq(BackoffSchedule, 1, Len(cl_waits))
        /\ cl_attempt = Len(cl_waits) + 1
        /\ (cl_pc = "idle" /\ cl_result[1] = "Err") => cl_waits = BackoffSchedule

\* C21: with trading enabled and a key missing the process exits with code 1
\* before any network activity: the web server is not listening and no
\* request has gone to the venue.  With trading enabled and a position sync
\* that fails with AUTH_ERROR it exits with code 1 before the queues, the
\* strategy thread and the dispatcher are started.  With trading disabled
\* startup, once the database is open, never exits.
C21_FatalStartup ==
    /\ (cfg_enabled /\ ~cfg_keys) => main_pc \in {"db", "server", "keys"}
    /\ exited => exit_code = 1
    /\ (exited /\ main_pc = "keys") => (srv_pc # "listening" /\ http_count = 0)
    /\ (exited /\ main_pc = "sync_wait")
          => /\ exit_code = 1 /\ cfg_enabled
             /\ ~handler_set /\ st_pc = "off" /\ ex_pc = "off" /\ feed_pc = "off"
    /\ (~cfg_enabled /\ main_pc # "db") => (~exited /\ exit_code = -1)

\* The instruction the claim expects for an event: the side the strategy is
\* on, a market order, the symbol and the price of the event, 0.01 (one lot).
ExpectedInstruction(side, event) ==
    [ symbol |-> "BTCUSDT", side |-> side, order_type |-> "Market",
      price |-> event.price, quantity |-> 1, dry_run |-> FALSE,
      src |-> event.id ]

\* A step of the strategy thread that takes an event from Q1 builds one
\* instruction if the price is above 50000 and more than 10 s have passed
\* since the last one, and none otherwise.
PerEvent ==
    (st_pc = "pop" /\ q1 # << >> /\ q1' = Tail(q1))
        => st_out' = IF Head(q1).price > 50000
                        /\ clock - st_obj.last_trade_time > 10
                     THEN << ExpectedInstruction(st_obj.next_side, Head(q1)) >>
                     ELSE << >>

\* The instructions on their way through the dispatcher are in the order of
\* the events they were built from, those events came before the ones still
\* in Q1, and Q1 holds its events in the order they were pushed.
InQ1Order ==
    LET way == ex_instr \o q2 \o st_out
    IN  /\ \A i, j \in 1..Len(way) : i < j => way[i].src < way[j].src
        /\ \A i \in 1..Len(way), k \in 1..Len(q1) : way[i].src < q1[k].id
        /\ \A k, l \in 1..Len(q1) : k < l => q1[k].id < q1[l].id

\* Events A (49000) then B (50001) were pushed and handled and the dispatcher
\* has popped nothing: Q2 holds exactly the Buy for B.
ScenarioAB ==
    (/\ fed = <<49000, 50001>> /\ q1 = << >> /\ st_pc = "loop"
     /\ ex_pc = "poll" /\ recent_logs = << >>)
        => q2 = << ExpectedInstruction("Buy", [price |-> 50001, id |-> 2]) >>

\* C22 (original): with is_running true and ping-pong active, every
\* instruction built for an event with price > 50000 that passed the throttle
\* is put on Q2, none is built for a price <= 50000, the order is that of Q1,
\* and A (49000) then B (50001) leave exactly one instruction on Q2: Buy,
\* Market, symbol and price of B, quantity 0.01.
C22_Original ==
    /\ [](InQ1Order /\ ScenarioAB)
    /\ [][PerEvent]_vars
    /\ [][st_pc = "push" /\ st_pc' = "loop" => q2' = Append(q2, st_out[1])]_vars

\* C22 (amended): as the original, except that an instruction built while Q2
\* is full is dropped and Q2 left as it was.
C22_Amended ==
    /\ [](InQ1Order /\ ScenarioAB)
    /\ [][PerEvent]_vars
    /\ [][st_pc = "push" /\ st_pc' = "loop"
            => q2' = IF Len(q2) < PpQCap THEN Append(q2, st_out[1]) ELSE q2]_vars

\* C22 witness: A, B and a second event above 50000 were pushed and consumed,
\* and Q2 holds two instructions at once: the Buy for B and, behind it, the
\* Sell for the third event.
C22_Witness ==
    /\ fed = <<49000, 50001, 50001>> /\ q1 = << >> /\ st_pc = "loop"
    /\ q2 = << ExpectedInstruction("Buy", [price |-> 50001, id |-> 2]),
               ExpectedInstruction("Sell", [price |-> 50001, id |-> 3]) >>

\* C23: when the process exits through the shutdown handler, every record
\* insert_trade accepted before the shutdown began has been committed, unless
\* a commit failed.
C23_FlushOnExit ==
    (exited /\ db_at_mark >= 0 /\ db_lost = 0) => db_rows >= db_at_mark

\* The handler has sent the stop broadcast.
BroadcastSent ==
    \E h \in DOMAIN sig_pc : sig_pc[h] \in {"drain", "cancel", "disarm", "flush", "exit"}

\* C24: once the shutdown broadcast has been sent and the feed task has left
\* its receive loop, the reconnect loop makes no further connection attempt
\* and no event is pushed onto Q1.
C24_FeedStops ==
    /\ [][(BroadcastSent /\ feed_pc = "done")
            => ~(ws_pc = "connect" /\ ws_pc' # "connect")]_vars
    /\ [][feed_pc = "done" => (q1' = q1 \/ q1' = Tail(q1))]_vars

\* The schedule of the claim: min(100 * 2^(k-1), 5000) ms.
ReconnectDelay(k) == Min(100 * 2^(k - 1), 5000)

\* Every delay slept, and the backoff kept, lies between 100 ms and 5 s.
DelayInRange ==
    /\ ws_delay = 0 \/ (100 <= ws_delay /\ ws_delay <= 5000)
    /\ 100 <= ws_backoff /\ ws_backoff <= 5000

\* The first delay after a successful connection is 100 ms.
FirstDelayAfterConnection ==
    (ws_pc = "connect" /\ ws_linked /\ ws_fails = 0) => ws_delay = 100

\* C30 (original): the reconnect delay is always between 100 ms and 5 s, the
\* delay that follows the k-th failed attempt in a row is
\* min(100 * 2^(k-1), 5000) ms, and the first delay after a successful
\* connection is 100 ms.
C30_Original ==
    /\ DelayInRange
    /\ (ws_pc = "connect" /\ ws_fails >= 1) => ws_delay = ReconnectDelay(ws_fails)
    /\ FirstDelayAfterConnection

\* C30 (amended): the reconnect delay is always between 100 ms and 5 s and the
\* first delay after a successful connection is 100 ms; the delay that follows
\* the k-th failed attempt in a row is min(100 * 2^(k-1), 5000) ms while no
\* connection has been made, and min(100 * 2^k, 5000) ms after a connection,
\* whose end was itself followed by the first delay of 100 ms.
C30_Amended ==
    /\ DelayInRange
    /\ (ws_pc = "connect" /\ ws_fails >= 1)
          => ws_delay = ReconnectDelay(IF ws_linked THEN ws_fails + 1 ELSE ws_fails)
    /\ FirstDelayAfterConnection

\* C30 witness: after a connection that ended and seven failed attempts in a
\* row the loop has just slept for the full 5 s.
C30_Witness ==
    /\ ws_linked /\ ws_pc = "connect" /\ ws_fails = 7 /\ ws_delay = 5000

\* The steps of the handler from the given one on.
StepsFrom(pc) ==
    CASE pc = "stop" -> {"stop", "bcast", "drain", "cancel", "disarm", "flush", "exit"}
      [] pc = "drain" -> {"drain", "cancel", "disarm", "flush", "exit"}
      [] pc = "cancel" -> {"cancel", "disarm", "flush", "exit"}
      [] pc = "disarm" -> {"disarm", "flush", "exit"}

\* C25: the handler sets shutting_down before it goes on, has set the strategy
\* shutdown flag before the cancel step, starts the cancel step only when the
\* strategy thread has terminated, and disarms the kill switch only after
\* the cancel step.
C25_SequencerOrder ==
    /\ [](\A h \in DOMAIN sig_pc :
            /\ sig_pc[h] \in StepsFrom("stop") => shutting_down
            /\ sig_pc[h] \in StepsFrom("cancel") => shutdown)
    /\ [][\A h \in DOMAIN sig_pc :
            (sig_pc[h] = "cancel" /\ sig_pc'[h] = "disarm")
                => st_pc \in {"off", "done"}]_vars
    /\ [][(trading_enabled /\ ~trading_enabled'
            /\ \E h \in DOMAIN sig_pc : sig_pc'[h] # sig_pc[h])
                => \E h \in DOMAIN sig_pc : sig_pc[h] = "disarm"]_vars

\* The six fields of the single-writer rule.
SingleWriterFields ==
    <<current_position, avg_entry_price, current_pnl, trade_count,
      last_order_rtt_ns, pnl_history>>

\* C26: once the dispatcher runs, a step changes current_position,
\* avg_entry_price, current_pnl, trade_count, last_order_rtt_ns or pnl_history
\* only if it is the dispatcher taking the Ok of place_order (the count and
\* the round trip) or accounting the order it took the Ok for (the other
\* four); the control
\* commands, the configuration update, the change of strategy, the feed task,
\* the strategy thread, the speed meter and the dispatcher's discard, reject
\* and failure paths leave all six as they were.
C26_SingleWriter ==
    [][ /\ SingleWriterFields' # SingleWriterFields
              => ex_pc \in {"wait", "account"} /\ ex_pc' # ex_pc
        /\ (ex_pc = "wait" /\ ex_pc' # "wait")
              => IF cl_result'[1] = "Ok"
                 THEN /\ trade_count' = trade_count + 1
                      /\ UNCHANGED <<current_position, avg_entry_price,
                                     current_pnl, pnl_history>>
                 ELSE SingleWriterFields' = SingleWriterFields
        /\ (ex_pc = "account" /\ ex_pc' # "account")
              => UNCHANGED <<trade_count, last_order_rtt_ns>>
        /\ OnSuccessPath ]_vars

\* C26 witness: an order has been placed and counted with a round trip
\* measured, a request of the control plane has been answered, the speed
\* meter has sampled the tick and the dispatcher is back at its queue.
C26_Witness ==
    /\ trade_count = 1 /\ last_order_rtt_ns > 0 /\ current_position # 0
    /\ ctl_n = 1 /\ ctl_pc = "idle" /\ current_tps = 1
    /\ ex_pc = "poll"

\* The step appends exactly one line to recent_logs, the oldest line making
\* room for it when the log is full.
OneLineLogged ==
    LET old == IF Len(recent_logs) >= RECENT_LOGS_CAP
               THEN Tail(recent_logs) ELSE recent_logs
    IN  /\ Len(recent_logs') = Len(old) + 1
        /\ SubSeq(recent_logs', 1, Len(old)) = old

\* The dispatcher leaves Risk.check with the kill switch off.
RejectStep == ex_pc = "risk" /\ ex_pc' # "risk" /\ ~trading_enabled

\* The dispatcher takes an error from place_order.
FailureStep == ex_pc = "wait" /\ ex_pc' # "wait" /\ cl_result'[1] = "Err"

\* C27: a rejection by Risk.check and a failure of place_order each append
\* exactly one line to recent_logs, drop the instruction, make no further call
\* of place_order, leave position, average entry, P&L, trade_count,
\* is_running and the kill switch as they were, and put the dispatcher back
\* at Q2.
C27_RejectAndFailure ==
    [][(RejectStep \/ FailureStep)
          => /\ OneLineLogged
             /\ recent_logs'[Len(recent_logs')][1] =
                    (IF RejectStep THEN "Risk Reject" ELSE "Order Failed")
             /\ ex_instr' = << >> /\ ex_pc' = "poll"
             /\ cl_calls' = cl_calls /\ cl_pc' = "idle"
             /\ http_count' = http_count
             /\ UNCHANGED <<current_position, avg_entry_price, current_pnl,
                            pnl_history, trade_count, is_running,
                            trading_enabled>>]_vars

\* C27 witness: one instruction was rejected and another failed at the venue;
\* both lines are in the log, nothing was traded and the dispatcher is back
\* at Q2.
C27_Witness ==
    /\ \E i \in 1..Len(recent_logs) : recent_logs[i][1] = "Risk Reject"
    /\ \E i \in 1..Len(recent_logs) : recent_logs[i][1] = "Order Failed"
    /\ trade_count = 0 /\ cl_calls = 1 /\ ex_pc = "poll"

\* The step appends exactly one entry to pnl_history, the oldest entry making
\* room for it when the series is full.
OneEntryAppended ==
    LET old == IF Len(pnl_history) >= PNL_HISTORY_CAP
               THEN Tail(pnl_history) ELSE pnl_history
    IN  /\ Len(pnl_history') = Len(old) + 1
        /\ SubSeq(pnl_history', 1, Len(old)) = old

\* C28: update_from_trade appends exactly one entry to pnl_history, holding
\* the time and current_pnl as it is after the update, if the realized P&L it
\* returns is not zero or the fee is above zero; otherwise it leaves current_pnl
\* and pnl_history as they were.  In both cases the position moves by the
\* quantity of the fill and the entry price is brought up to date.
C28_BookedIff ==
    [][fills_n' = fills_n + 1
          => /\ IF last_realized' # RZero \/ last_fee' > 0
                THEN /\ OneEntryAppended
                     /\ pnl_history'[Len(pnl_history')] = <<clock, current_pnl'>>
                     /\ current_pnl' = RAdd(current_pnl, last_realized')
                ELSE /\ current_pnl' = current_pnl
                     /\ pnl_history' = pnl_history
             /\ current_position' = current_position + (sum_qty' - sum_qty)
             /\ current_position' # current_position
             /\ avg_entry_price' = ref'.entry]_vars

\* C28 witness: of three fills one opened a position without a fee and left
\* the series alone, and the last one paid a fee; the series holds two
\* entries and a position is open.
C28_Witness ==
    /\ fills_n = 3 /\ Len(pnl_history) = 2
    /\ last_fee > 0 /\ current_position # 0

\* C29: the name check of an iteration leaves the strategy thread with an
\* object built for the name active_strategy holds, and with one built
\* after the last change of the name, for the event the iteration takes
\* from Q1.
C29_FreshAfterChange ==
    [][(st_pc = "name" /\ st_pc' # "name")
          => (st_name' = active_strategy /\ ~name_changed')]_vars

\* C31: every successfully parsed tick is counted: the trades parsed so far
\* are those the feed task has counted, with the heartbeat at the last of
\* them, and those waiting in the channel to be counted, whether or not Q1
\* took them.
C31_CountsEveryParse ==
    /\ ws_parsed = ticks_counter + ws_chan
    /\ last_tick_timestamp = ticks_counter

\* The sides of the instructions the strategy has returned, in order.
RECURSIVE EmittedSides(_)
EmittedSides(trig) ==
    IF trig = << >> THEN << >>
    ELSE LET rest == EmittedSides(Tail(trig))
         IN  IF Head(trig).out = "None" THEN rest ELSE <<Head(trig).out>> \o rest

\* C32 (original): under ping-pong with the throttle on, of any two
\* successive triggering events less than 10 s apart exactly one is answered
\* with an instruction, and the sides of the instructions alternate
\* strictly: Buy, Sell, Buy, ...
C32_Original ==
    /\ \A k \in 1..(Len(pp_trig) - 1) :
          pp_trig[k + 1].at - pp_trig[k].at < PP_THROTTLE_S
             => (pp_trig[k].out # "None") # (pp_trig[k + 1].out # "None")
    /\ LET sides == EmittedSides(pp_trig)
       IN  \A k \in 1..Len(sides) :
              sides[k] = IF k % 2 = 1 THEN "Buy" ELSE "Sell"

\* C32 (amended): under ping-pong with the throttle on, of two successive
\* triggering events less than 10 s apart, the first of which is the first
\* the strategy sees or is answered with an instruction, exactly one, the
\* first, is answered with an instruction; no two successive triggering
\* events less than 10 s apart are both answered; and the sides of the
\* instructions alternate strictly: Buy, Sell, Buy, ...
C32_Amended ==
    /\ \A k \in 1..(Len(pp_trig) - 1) :
          pp_trig[k + 1].at - pp_trig[k].at < PP_THROTTLE_S
             => /\ ~(pp_trig[k].out # "None" /\ pp_trig[k + 1].out # "None")
                /\ (k = 1 \/ pp_trig[k].out # "None")
                      => /\ pp_trig[k].out # "None"
                         /\ pp_trig[k + 1].out = "None"
    /\ LET sides == EmittedSides(pp_trig)
       IN  \A k \in 1..Len(sides) :
              sides[k] = IF k % 2 = 1 THEN "Buy" ELSE "Sell"

\* C32 witness: a second and a third triggering event within 10 s of the
\* first were both throttled, the third less than 10 s after the second, and
\* the next instructions returned were a Sell and a Buy.
C32_Witness ==
    /\ Len(pp_trig) >= 5
    /\ pp_trig[1].out = "Buy" /\ pp_trig[2].out = "None" /\ pp_trig[3].out = "None"
    /\ pp_trig[2].at > pp_trig[1].at
    /\ pp_trig[3].at - pp_trig[1].at < PP_THROTTLE_S
    /\ EmittedSides(pp_trig) = <<"Buy", "Sell", "Buy">>

\* C33: with the shutdown flag set the strategy thread tests the flag at most
\* once, and that test ends the thread, whether the engine is stopped, Q1
\* empty or Q2 full; before it, the thread runs at most the one loop body it
\* had begun or passed the test for, and pushes at most one instruction.
C33_StopsWithinOneIteration ==
    /\ st_after.tests <= 1
    /\ st_after.tests = 1 => st_pc = "done"
    /\ st_after.bodies <= 1
    /\ st_after.pushes <= 1

\* C33 witness: the flag was set while an instruction waited to be pushed
\* onto a full Q2; the thread made that one push and ended at its next test.
C33_Witness ==
    /\ shutdown /\ st_pc = "done"
    /\ st_after = [tests |-> 1, bodies |-> 0, pushes |-> 1]
    /\ Len(q2) = QCap

\* C34: the dispatcher enters place_order only while is_running is true: once
\* STOP or the shutdown handler has stored false, no call begins until START
\* stores true, not even for an instruction that had passed the dispatcher's
\* own test of is_running.
C34_NoCallAfterStop ==
    [][ cl_calls' = cl_calls + 1 => is_running ]_vars

\* The shutdown handler is past its store of false to is_running.
SequencerStopped ==
    \E h \in DOMAIN sig_pc :
       sig_pc[h] \in {"bcast", "drain", "cancel", "disarm", "flush", "exit"}

\* C35: once the shutdown handler has stored false to is_running, no step
\* takes is_running or trading_enabled from false to true, not even a step
\* of a START that had passed the shutting_down guard.
C35_NoRestartInShutdown ==
    [][ SequencerStopped
          => /\ is_running' => is_running
             /\ trading_enabled' => trading_enabled ]_vars

\* C36: after a STOP followed by a START, every place_order call is made for
\* an instruction built from a tick the feed received after the STOP: none
\* comes from a tick that waited on Q1, or an instruction that waited on Q2,
\* since before the STOP.
C36_NoStaleOrders ==
    [][ (cl_calls' = cl_calls + 1 /\ restarted)
           => cl_instr'[1].src > stop_mark ]_vars

\* The dispatcher holds an instruction it has popped and not yet called
\* place_order for.
HoldsUnsubmitted == IF ex_pc \in {"gate", "risk"} THEN 1 ELSE 0

\* C37: every place_order call is made for an instruction popped from Q2 and
\* not yet called for; the calls never outnumber the instructions popped, nor
\* these the instructions the strategy thread pushed; and no instruction is
\* handed to place_order twice.
C37_OneCallPerInstruction ==
    /\ [](/\ Len(submitted) = cl_calls
          /\ cl_calls + HoldsUnsubmitted <= q2_popped
          /\ q2_popped + Len(q2) = q2_pushed
          /\ \A j, k \in 1..Len(submitted) : j # k => submitted[j] # submitted[k])
    /\ [][ cl_calls' = cl_calls + 1
              => /\ ex_pc = "risk" /\ ex_pc' = "wait"
                 /\ cl_instr' = ex_instr /\ ex_instr' = ex_instr ]_vars

\* C37 witness: two instructions were pushed and popped and each was handed
\* to place_order once.
C37_Witness ==
    /\ q2_pushed = 2 /\ q2_popped = 2
    /\ submitted = <<1, 2>> /\ ex_pc = "poll"

\* No control command is being handled and no invocation of the shutdown
\* handler is between its latch and its exit.
Quiescent ==
    /\ ctl_pc = "idle"
    /\ \A h \in DOMAIN sig_pc : sig_pc[h] \in {"idle", "returned", "exit"}

\* C38: whenever no control command and no shutdown sequence is in progress,
\* is_running and trading_enabled are equal, also once auto-stop has stopped
\* the engine.
C38_RunningIffArmed ==
    Quiescent => (is_running = trading_enabled)

\* No instruction is on its way from the strategy to the venue.
NothingInFlight ==
    /\ st_pc = "loop" /\ st_out = << >> /\ q2 = << >>
    /\ ex_pc = "poll" /\ ex_instr = << >>

\* C39: whenever no instruction is on its way, the position the momentum
\* strategy tracks for itself has the sign of the position its executed
\* orders have produced, also after an instruction was dropped on a full Q2,
\* discarded while stopped, rejected by Risk.check or failed at the venue.
C39_TrackedPositionAgrees ==
    (st_obj.kind = "MOMENTUM" /\ NothingInFlight)
       => Sign(st_obj.position) = Sign(current_position)

\* The thread t waits for a mutex another thread holds.
Waiting(t) ==
    AtOp(t, "lock") /\ mutex_owner[NextOp(t)[2]] # "free"

\* Following who waits for whom from t, within n steps a thread is found
\* that can go on.
RECURSIVE CanProceed(_, _)
CanProceed(t, n) ==
    IF ~Waiting(t) THEN TRUE
    ELSE IF n = 0 THEN FALSE
    ELSE CanProceed(mutex_owner[NextOp(t)[2]], n - 1)

\* C40: no interleaving of the dispatcher, the control-plane handlers, the SSE
\* stream and the strategy's name check deadlocks on the EngineState mutexes:
\* a mutex is held only by a thread that has its release ahead of it, no
\* thread waits in a cycle, so that every mutex a thread waits for is on its
\* way to being released, and the strategy thread, once in its loop, never
\* waits for a mutex.
HeldToRelease ==
    \A m \in Mutexes :
       mutex_owner[m] # "free" =>
          \E i \in DOMAIN lock_at[mutex_owner[m]].ops :
             lock_at[mutex_owner[m]].ops[i] = <<"unlock", m>>
C40_NoDeadlock ==
    /\ HeldToRelease
    /\ \A t \in Threads : CanProceed(t, Cardinality(Threads))
    /\ lock_at["strategy"].in = "check" => ~Waiting("strategy")
\* Under the fairness of the scheduler and of parking_lot, every function that
\* locks runs to its end: each of its acquisitions is granted.
EveryAcquisitionGranted ==
    \A t \in Threads : (lock_at[t].ops # << >>) ~> (lock_at[t].ops = << >>)
\* The dispatcher, inside update_from_trade with two mutexes held, waits for
\* current_pnl, which a handler holds, while the SSE stream waits for the
\* dispatcher and the strategy thread is in its loop.
C40_Witness ==
    /\ Waiting("dispatcher") /\ mutex_owner["current_position"] = "dispatcher"
    /\ mutex_owner["current_pnl"] = "control"
    /\ Waiting("sse") /\ mutex_owner[NextOp("sse")[2]] = "dispatcher"
    /\ lock_at["strategy"].in = "check"

====
